---- MODULE Spec2Model ----
(***************************************************************************)
(* Odoo2ZohoMigrator: the source fetcher (core/odoo_client.py), the        *)
(* destination client (core/zoho_client.py), the passes (main.py), the     *)
(* mappers (core/data_mapper.py) and the validators (utils/validators.py). *)
(***************************************************************************)
EXTENDS Integers, Sequences, FiniteSets, TLC

(* ------------------------------ bounds -------------------------------- *)
\* source record ids are 1..MaxId
MaxId == 3
\* page sizes tried by the callers of fetch_records are 1..MaxBatch
MaxBatch == 2
\* number of fetch_records calls that may run at the same time
NumCalls == 3
\* OdooClient(max_workers=...): pool size and page worker count
max_workers == 2

\* destination worker threads that use the ZohoClient at the same time
NumWorkers == 2
\* units in the source model of the unit pass
NumUnits == 2
\* requests one observed client call may send before the model stops following it
MaxRequests == 5
\* 'per_page' of the Contacts listing (200 in get_contact_map)
per_page == 1
\* contacts in the destination when the listing starts
MaxContacts == 2
\* BATCH_SIZE of config.settings
BATCH_SIZE == 1
\* property.master records that fetch_records returned to the property pass
MaxProperties == 2

(* ------------------------- program constants --------------------------- *)
\* len(ZohoClient.domains)
NumDomains == 4
\* "retry_count < 3" in create_record
RetryLimit == 3
\* validate_phone: 'if len(phone) >= 8'
MinPhoneDigits == 8
\* OdooClient.__init__: 'retry_limit: int = 3'
retry_limit == 3

Ids == 1..MaxId
Calls == 1..NumCalls
\* the thread whose call is recorded in hist, refreshes, rejected and sleeps
Observed == NumWorkers + 1
Workers == 1..NumWorkers
Threads == {Observed} \cup Workers
Ops == {"create_record", "update_record", "get_existing_unit", "get_contact_by_odoo_id"}
\* what a destination request can come to: a 2xx body with status success, a
\* body with another status, a 401, or an exception (requests or .json())
Resp == {"success", "failure", "unauthorized", "raise"}

Min(a, b) == IF a < b THEN a ELSE b

VARIABLES
  \* ---- source system and OdooClient ----
  source,            \* ids of the records of the model that exist in Odoo
  pool,              \* OdooClient._connection_pool (deque, maxlen = max_workers)
  created,           \* number of connections _create_connection has made
  fpc,               \* fetch_records call -> position
  domain,            \* fetch_records call -> filter (0: [], k: [('id','=',k)])
  batch_size,        \* fetch_records call -> page size
  total_count,       \* fetch_records call -> result of search_count
  jobs,              \* fetch_records call -> sequence of page jobs (futures)
  all_records,       \* fetch_records call -> records gathered so far (by id)
  page_errors        \* fetch_records call -> pages logged as 'Batch processing error'

fetchVars == <<source, pool, created, fpc, domain, batch_size, total_count,
               jobs, all_records, page_errors>>

VARIABLES
  \* ---- ZohoClient ----
  access_token,      \* 0: None, d: the token issued by auth endpoint d
  current_domain,    \* 0: None, d: index into ZohoClient.domains
  token_lock,        \* 0: free, t: held by thread t
  zpc,               \* thread -> position in its client call
  op,                \* thread -> the client method it runs
  retry_count,       \* thread -> retry_count argument of create_record
  dom_i,             \* thread -> loop index of refresh_token over domains
  result,            \* thread -> value returned by the call
  \* ---- record of the call made by thread Observed ----
  hist,              \* answers to the requests it sent, in order
  refreshes,         \* refresh_token() calls it made
  rejected,          \* refresh_token() calls of it that every endpoint rejected
  sleeps             \* time.sleep(1) calls it made

zohoVars == <<access_token, current_domain, token_lock, zpc, op, retry_count,
              dom_i, result, hist, refreshes, rejected, sleeps>>

VARIABLES
  \* ---- the unit pass (MigrationManager.migrate_units) ----
  units,             \* the account.asset.asset records of the source
  partner,           \* the res.partner record the units' owner_id refers to
  zoho_contacts,     \* Contacts of the destination, in creation order
  zoho_units,        \* unit records of the destination, in creation order
  contact_map,       \* the identity index of the running pass
  upc,               \* position of the pass
  run,               \* 1: first run of the pass, 2: the run after it
  fetched,           \* units as fetch_records returned them
  idx,               \* index in fetched of the unit processed next
  success_count, error_count, skipped_count, processed_count,
  new_records        \* run -> destination records created during that run

unitVars == <<units, partner, zoho_contacts, zoho_units, contact_map, upc, run,
              fetched, idx, success_count, error_count, skipped_count,
              processed_count, new_records>>

VARIABLES
  \* ---- ZohoClient.get_contact_map (its dict is contact_map) ----
  lpc,               \* position of the listing
  page,              \* the page requested next
  list_error         \* 'Error fetching contacts page' was logged

listVars == <<lpc, page, list_error>>

VARIABLES
  \* ---- the pass that runs (migrate_leads or migrate_units) ----
  kind,              \* "leads" or "units"
  leads,             \* the crm.lead records of the source
  zoho_leads         \* Leads of the destination, in creation order

passVars == <<kind, leads, zoho_leads>>

VARIABLES
  \* ---- the worker threads of a pass (process_lead_batch, process_unit_batch) ----
  wpc,               \* worker -> position in its batch loop
  wleft,             \* worker -> records of its batch not yet taken
  wout,              \* worker -> outcome of the record it is processing
  wtmp,              \* worker -> counter value it loaded for '+= 1'
  tally              \* outcome -> records that took it

workVars == <<wpc, wleft, wout, wtmp, tally>>

VARIABLES
  \* ---- the record loop of a batch, as one worker runs it ----
  stop_event,        \* MigrationManager.stop_event is set
  inflight,          \* the flag was tested for fetched[idx] and the body runs
  sent               \* destination requests and rate-limit sleeps, in order

loopVars == <<stop_event, inflight, sent>>

VARIABLES
  \* ---- a mapper applied to one source record ----
  mapper,            \* the mapper that was applied, "none" before
  odoo_record,       \* the source record
  zoho_record,       \* what the mapper returned
  dest_contact,      \* a contact of the destination
  linked             \* what find_contact_id returned for the record (0: None)

mapVars == <<mapper, odoo_record, zoho_record, dest_contact, linked>>

VARIABLES
  \* ---- a destination request as a thread builds it ----
  url_domain,        \* thread -> the endpoint whose base_url it put in url
  header_token       \* thread -> the access token it put in headers

sendVars == <<url_domain, header_token>>

VARIABLES
  \* ---- the property pass (MigrationManager.migrate_properties) ----
  mapped_properties, \* the records map_property returned, in order
  fieldnames,        \* fieldnames of the csv.DictWriter
  rows               \* the rows written to the file after the header

exportVars == <<mapped_properties, fieldnames, rows>>

vars == <<fetchVars, zohoVars, unitVars, listVars, passVars, workVars,
          loopVars, mapVars, sendVars, exportVars>>

nonFetchVars == <<zohoVars, unitVars, listVars, passVars, workVars, loopVars,
                  mapVars, sendVars, exportVars>>
nonZohoVars == <<fetchVars, unitVars, listVars, passVars, workVars, loopVars,
                 mapVars, sendVars, exportVars>>
nonUnitVars == <<fetchVars, zohoVars, listVars, passVars, workVars, loopVars,
                 mapVars, sendVars, exportVars>>
nonListVars == <<fetchVars, passVars, workVars, loopVars, mapVars, sendVars, exportVars>>

(* ------------------------- source fetcher ----------------------------- *)

RECURSIVE SortedSeq(_)
\* the ids of S in ascending order ('order': 'id')
SortedSeq(S) ==
  IF S = {} THEN <<>>
  ELSE LET m == CHOOSE x \in S : \A y \in S : x <= y
       IN <<m>> \o SortedSeq(S \ {m})

\* the records the filter of a call accepts
Matching(src, dom) == IF dom = 0 THEN src ELSE src \cap {dom}

\* execute_kw(model, 'search', [domain], {offset, limit, order: 'id'})
Search(src, dom, offset, limit) ==
  LET s == SortedSeq(Matching(src, dom))
  IN SubSeq(s, offset + 1, Min(offset + limit, Len(s)))

Page(k, size) ==
  [offset |-> (k - 1) * size, limit |-> size, st |-> "queued", conn |-> 0,
   record_ids |-> <<>>, outcome |-> "none", returned |-> 0]

BatchesWholePagesOnly(total, size) ==
  [k \in 1..(total \div size) |-> Page(k, size)]

\* batches = [{'offset': i, 'limit': batch_size} for i in range(0, total, batch_size)]
Batches(total, size) ==
  [k \in 1..((total + size - 1) \div size) |-> Page(k, size)]

DequeAppendUnbounded(q, x) == Append(q, x)

\* deque(maxlen = max_workers).append: a full deque drops its leftmost item
DequeAppend(q, x) ==
  IF Len(q) >= max_workers THEN Tail(q) \o <<x>> ELSE Append(q, x)

InFlight(c) == {i \in DOMAIN jobs[c] : jobs[c][i].st \in {"search", "read", "finally"}}
NextQueued(c, i) ==
  /\ jobs[c][i].st = "queued"
  /\ \A j \in 1..(i - 1) : jobs[c][j].st # "queued"

SetJob(c, i, j) == jobs' = [jobs EXCEPT ![c][i] = j]

OdooInit ==
  /\ source \in {1..n : n \in 0..MaxId}
  /\ pool = [k \in 1..max_workers |-> k]
  /\ created = max_workers
  /\ fpc = [c \in Calls |-> "idle"]
  /\ domain = [c \in Calls |-> 0]
  /\ batch_size = [c \in Calls |-> 1]
  /\ total_count = [c \in Calls |-> 0]
  /\ jobs = [c \in Calls |-> <<>>]
  /\ all_records = [c \in Calls |-> <<>>]
  /\ page_errors = [c \in Calls |-> 0]

\* ZohoClient.__init__ returned: refresh_token() found an accepting endpoint
ZohoInit ==
  /\ \E d \in 1..NumDomains : access_token = d /\ current_domain = d
  /\ token_lock = 0
  /\ op = [t \in Threads |-> "none"]
  /\ retry_count = [t \in Threads |-> 0]
  /\ dom_i = [t \in Threads |-> 0]
  /\ result = [t \in Threads |-> "none"]
  /\ hist = <<>>
  /\ refreshes = 0
  /\ rejected = 0
  /\ sleeps = 0

\* no ZohoClient is in use
ZohoQuiet ==
  /\ access_token = 0
  /\ current_domain = 0
  /\ token_lock = 0
  /\ zpc = [t \in Threads |-> "off"]
  /\ op = [t \in Threads |-> "none"]
  /\ retry_count = [t \in Threads |-> 0]
  /\ dom_i = [t \in Threads |-> 0]
  /\ result = [t \in Threads |-> "none"]
  /\ hist = <<>>
  /\ refreshes = 0
  /\ rejected = 0
  /\ sleeps = 0

\* MigrationManager.__init__: self.stop_event = Event(); nothing sent yet
LoopQuiet ==
  /\ stop_event = FALSE
  /\ inflight = FALSE
  /\ sent = <<>>

\* no mapper is under study
\* no request is being built
SendQuiet ==
  /\ url_domain = [t \in Threads |-> 0]
  /\ header_token = [t \in Threads |-> 0]

\* no property pass runs
ExportQuiet ==
  /\ mapped_properties = <<>>
  /\ fieldnames = {}
  /\ rows = <<>>

MapQuiet ==
  /\ mapper = "off"
  /\ odoo_record = <<>>
  /\ zoho_record = <<>>
  /\ dest_contact = <<>>
  /\ linked = 0

\* get_contact_map is not running, nor a lead pass, nor the workers of a pass
ListQuiet ==
  /\ lpc = "off"
  /\ page = 1
  /\ list_error = FALSE
  /\ kind = "units"
  /\ leads = <<>>
  /\ zoho_leads = <<>>
  /\ wpc = [w \in Workers |-> "off"]
  /\ wleft = [w \in Workers |-> 0]
  /\ wout = [w \in Workers |-> "none"]
  /\ wtmp = [w \in Workers |-> 0]
  /\ tally = <<>>
  /\ LoopQuiet

\* no pass is running
UnitQuiet ==
  /\ units = <<>>
  /\ partner = <<>>
  /\ zoho_contacts = <<>>
  /\ zoho_units = <<>>
  /\ contact_map = <<>>
  /\ upc = "off"
  /\ run = 0
  /\ fetched = <<>>
  /\ idx = 0
  /\ success_count = 0
  /\ error_count = 0
  /\ skipped_count = 0
  /\ processed_count = 0
  /\ new_records = <<>>

InitFetch == OdooInit /\ ZohoQuiet /\ UnitQuiet /\ ListQuiet /\ MapQuiet /\ SendQuiet /\ ExportQuiet

\* a caller enters fetch_records(model, fields, domain, batch_size)
FetchRecords(c) ==
  /\ fpc[c] = "idle"
  /\ \E d \in {0} \cup Ids, b \in 1..MaxBatch :
       /\ domain' = [domain EXCEPT ![c] = d]
       /\ batch_size' = [batch_size EXCEPT ![c] = b]
  /\ fpc' = [fpc EXCEPT ![c] = "count"]
  /\ UNCHANGED nonFetchVars
  /\ UNCHANGED <<source, pool, created, total_count, jobs, all_records,
                 page_errors>>

\* a unit worker fetches the owner of its unit:
\* fetch_records('res.partner', domain=[('id', '=', owner_id[0])], batch_size=1)
FetchOwner(c) ==
  /\ fpc[c] = "idle"
  /\ \E d \in Ids : domain' = [domain EXCEPT ![c] = d]
  /\ batch_size' = [batch_size EXCEPT ![c] = 1]
  /\ fpc' = [fpc EXCEPT ![c] = "count"]
  /\ UNCHANGED nonFetchVars
  /\ UNCHANGED <<source, pool, created, total_count, jobs, all_records,
                 page_errors>>

\* total_count = self.models.execute_kw(..., 'search_count', [domain])
CountOk(c) ==
  /\ fpc[c] = "count"
  /\ LET n == Cardinality(Matching(source, domain[c]))
     IN /\ total_count' = [total_count EXCEPT ![c] = n]
        /\ IF n = 0
           THEN /\ fpc' = [fpc EXCEPT ![c] = "done"]
                /\ UNCHANGED jobs
           ELSE /\ fpc' = [fpc EXCEPT ![c] = "collect"]
                /\ jobs' = [jobs EXCEPT ![c] = Batches(n, batch_size[c])]
  /\ UNCHANGED nonFetchVars
  /\ UNCHANGED <<source, pool, created, domain, batch_size, all_records, page_errors>>

\* the count query raises: fetch_records logs and re-raises
CountRaises(c) ==
  /\ fpc[c] = "count"
  /\ fpc' = [fpc EXCEPT ![c] = "raised"]
  /\ UNCHANGED nonFetchVars
  /\ UNCHANGED <<source, pool, created, domain, batch_size, total_count, jobs,
                 all_records, page_errors>>

\* a pool thread of the call's executor takes the next queued page and
\* calls _get_connection
GetConnection(c, i) ==
  /\ fpc[c] = "collect"
  /\ i \in DOMAIN jobs[c]
  /\ NextQueued(c, i)
  /\ Cardinality(InFlight(c)) < max_workers
  /\ IF pool = <<>>
     THEN /\ created' = created + 1
          /\ SetJob(c, i, [jobs[c][i] EXCEPT !.st = "search", !.conn = created + 1])
          /\ UNCHANGED pool
     ELSE /\ pool' = Tail(pool)
          /\ SetJob(c, i, [jobs[c][i] EXCEPT !.st = "search", !.conn = Head(pool)])
          /\ UNCHANGED created
  /\ UNCHANGED nonFetchVars
  /\ UNCHANGED <<source, fpc, domain, batch_size, total_count, all_records, page_errors>>

\* record_ids = connection.execute_kw(..., 'search', ...)
SearchIds(c, i) ==
  /\ i \in DOMAIN jobs[c]
  /\ jobs[c][i].st = "search"
  /\ LET ids == Search(source, domain[c], jobs[c][i].offset, jobs[c][i].limit)
     IN IF ids = <<>>
        THEN SetJob(c, i, [jobs[c][i] EXCEPT !.st = "finally", !.outcome = "empty"])
        ELSE SetJob(c, i, [jobs[c][i] EXCEPT !.st = "read", !.record_ids = ids])
  /\ UNCHANGED nonFetchVars
  /\ UNCHANGED <<source, pool, created, fpc, domain, batch_size, total_count,
                 all_records, page_errors>>

SearchRaisesNoFinally(c, i) ==
  /\ i \in DOMAIN jobs[c]
  /\ jobs[c][i].st = "search"
  /\ SetJob(c, i, [jobs[c][i] EXCEPT !.st = "finished", !.outcome = "raised"])
  /\ UNCHANGED nonFetchVars
  /\ UNCHANGED <<source, pool, created, fpc, domain, batch_size, total_count,
                 all_records, page_errors>>

\* the id search raises: except logs and re-raises, finally runs next
SearchRaises(c, i) ==
  /\ i \in DOMAIN jobs[c]
  /\ jobs[c][i].st = "search"
  /\ SetJob(c, i, [jobs[c][i] EXCEPT !.st = "finally", !.outcome = "raised"])
  /\ UNCHANGED nonFetchVars
  /\ UNCHANGED <<source, pool, created, fpc, domain, batch_size, total_count,
                 all_records, page_errors>>

\* records = connection.execute_kw(..., 'read', [record_ids], {'fields': fields})
ReadRecords(c, i) ==
  /\ i \in DOMAIN jobs[c]
  /\ jobs[c][i].st = "read"
  /\ SetJob(c, i, [jobs[c][i] EXCEPT
       !.st = "finally", !.outcome = "records",
       !.record_ids = SelectSeq(@, LAMBDA r : r \in source)])
  /\ UNCHANGED nonFetchVars
  /\ UNCHANGED <<source, pool, created, fpc, domain, batch_size, total_count,
                 all_records, page_errors>>

ReadRaises(c, i) ==
  /\ i \in DOMAIN jobs[c]
  /\ jobs[c][i].st = "read"
  /\ SetJob(c, i, [jobs[c][i] EXCEPT !.st = "finally", !.outcome = "raised"])
  /\ UNCHANGED nonFetchVars
  /\ UNCHANGED <<source, pool, created, fpc, domain, batch_size, total_count,
                 all_records, page_errors>>

\* finally: self._return_connection(connection)
ReturnConnection(c, i) ==
  /\ i \in DOMAIN jobs[c]
  /\ jobs[c][i].st = "finally"
  /\ pool' = DequeAppend(pool, jobs[c][i].conn)
  /\ SetJob(c, i, [jobs[c][i] EXCEPT !.st = "finished", !.conn = 0,
                                     !.returned = @ + 1])
  /\ UNCHANGED nonFetchVars
  /\ UNCHANGED <<source, created, fpc, domain, batch_size, total_count,
                 all_records, page_errors>>

CollectAllOrNothing(c, i) ==
  /\ fpc[c] = "collect"
  /\ i \in DOMAIN jobs[c]
  /\ jobs[c][i].st = "finished"
  /\ all_records' = [all_records EXCEPT ![c] =
       IF jobs[c][i].outcome = "records" THEN @ \o jobs[c][i].record_ids ELSE <<>>]
  /\ page_errors' = [page_errors EXCEPT ![c] =
       IF jobs[c][i].outcome = "raised" THEN @ + 1 ELSE @]
  /\ SetJob(c, i, [jobs[c][i] EXCEPT !.st = "collected", !.record_ids = <<>>])
  /\ UNCHANGED nonFetchVars
  /\ UNCHANGED <<source, pool, created, fpc, domain, batch_size, total_count>>

\* for future in as_completed(futures): extend all_records, or log the error
Collect(c, i) ==
  /\ fpc[c] = "collect"
  /\ i \in DOMAIN jobs[c]
  /\ jobs[c][i].st = "finished"
  /\ all_records' = [all_records EXCEPT ![c] =
       IF jobs[c][i].outcome = "records" THEN @ \o jobs[c][i].record_ids ELSE @]
  /\ page_errors' = [page_errors EXCEPT ![c] =
       IF jobs[c][i].outcome = "raised" THEN @ + 1 ELSE @]
  /\ SetJob(c, i, [jobs[c][i] EXCEPT !.st = "collected", !.record_ids = <<>>])
  /\ UNCHANGED nonFetchVars
  /\ UNCHANGED <<source, pool, created, fpc, domain, batch_size, total_count>>

\* every future was seen: the executor is left and all_records is returned
ReturnRecords(c) ==
  /\ fpc[c] = "collect"
  /\ \A i \in DOMAIN jobs[c] : jobs[c][i].st = "collected"
  /\ fpc' = [fpc EXCEPT ![c] = "done"]
  /\ jobs' = [jobs EXCEPT ![c] = <<>>]
  /\ UNCHANGED nonFetchVars
  /\ UNCHANGED <<source, pool, created, domain, batch_size, total_count,
                 all_records, page_errors>>

PageSteps ==
  \E c \in Calls :
    \/ CountOk(c)
    \/ CountRaises(c)
    \/ ReturnRecords(c)
    \/ \E i \in 1..MaxId :
         \/ GetConnection(c, i)
         \/ SearchIds(c, i)
         \/ SearchRaises(c, i)
         \/ ReadRecords(c, i)
         \/ ReadRaises(c, i)
         \/ ReturnConnection(c, i)
         \/ Collect(c, i)

\* another user of the source system deletes the newest record
DeleteRecord ==
  /\ source # {}
  /\ source' = source \ {CHOOSE k \in source : \A j \in source : j <= k}
  /\ UNCHANGED nonFetchVars
  /\ UNCHANGED <<pool, created, fpc, domain, batch_size, total_count, jobs,
                 all_records, page_errors>>

\* another user of the source system deletes the oldest record
DeleteOldest ==
  /\ source # {}
  /\ source' = source \ {CHOOSE k \in source : \A j \in source : k <= j}
  /\ UNCHANGED nonFetchVars
  /\ UNCHANGED <<pool, created, fpc, domain, batch_size, total_count, jobs,
                 all_records, page_errors>>

\* one fetch_records call, as made by the thread that runs a pass
NextFetch == FetchRecords(1) \/ PageSteps

SpecFetch == InitFetch /\ [][NextFetch]_vars

\* one fetch_records call against a source that loses records meanwhile
NextFetchDel == FetchRecords(1) \/ PageSteps \/ DeleteRecord

SpecFetchDel == InitFetch /\ [][NextFetchDel]_vars

\* one fetch_records call against a source that loses old records meanwhile
NextFetchShift == FetchRecords(1) \/ PageSteps \/ DeleteOldest

SpecFetchShift == InitFetch /\ [][NextFetchShift]_vars

\* the unit workers' owner fetches, running at the same time
NextPool == (\E c \in Calls : FetchOwner(c)) \/ PageSteps

\* the partner table holds the owner the units refer to
InitPool == InitFetch /\ source = {1}

SpecPool == InitPool /\ [][NextPool]_vars

(* ------------------------- destination client ------------------------- *)

\* the bookkeeping of the observed call
Note(t, h, r, x, s) ==
  IF t = Observed
  THEN /\ hist' = h
       /\ refreshes' = r
       /\ rejected' = x
       /\ sleeps' = s
  ELSE UNCHANGED <<hist, refreshes, rejected, sleeps>>

\* the outermost frame returns v
Return(t, v) ==
  /\ zpc' = [zpc EXCEPT ![t] = "done"]
  /\ result' = [result EXCEPT ![t] = v]
  /\ retry_count' = [retry_count EXCEPT ![t] = 0]

\* a thread calls a client method (retry_count defaults to 0)
Call(t) ==
  /\ zpc[t] = "idle"
  /\ \E o \in Ops : op' = [op EXCEPT ![t] = o]
  /\ zpc' = [zpc EXCEPT ![t] = "request"]
  /\ retry_count' = [retry_count EXCEPT ![t] = 0]
  /\ UNCHANGED <<access_token, current_domain, token_lock, dom_i, result,
                 hist, refreshes, rejected, sleeps>>
  /\ UNCHANGED nonZohoVars

CanSend(t) ==
  /\ zpc[t] = "request"
  /\ t = Observed => Len(hist) < MaxRequests

\* one pass through the try block of a client method and its except handler:
\* a 401 leads to refresh_token() when on401 holds, an exception to a delayed
\* retry when onRaise holds and to None otherwise, any other answer is returned
Request(t, on401, onRaise) ==
  /\ CanSend(t)
  /\ \E r \in Resp :
       LET answer == IF current_domain = 0 THEN "raise" ELSE r
       IN /\ Note(t, Append(hist, answer), refreshes, rejected, sleeps)
          /\ IF answer = "unauthorized" /\ on401
             THEN /\ zpc' = [zpc EXCEPT ![t] = "lock"]
                  /\ UNCHANGED <<result, retry_count>>
             ELSE IF answer = "raise"
             THEN IF onRaise
                  THEN /\ zpc' = [zpc EXCEPT ![t] = "sleep"]
                       /\ UNCHANGED <<result, retry_count>>
                  ELSE Return(t, "None")
             ELSE Return(t, answer)
  /\ UNCHANGED <<access_token, current_domain, token_lock, op, dom_i>>
  /\ UNCHANGED nonZohoVars

CreateRecordNoRefresh(t) ==
  /\ op[t] = "create_record"
  /\ Request(t, FALSE, retry_count[t] < RetryLimit)

CreateRecordRefreshAlways(t) ==
  /\ op[t] = "create_record"
  /\ Request(t, TRUE, retry_count[t] < RetryLimit)

CreateRecordRetryAlways(t) ==
  /\ op[t] = "create_record"
  /\ Request(t, retry_count[t] < RetryLimit, TRUE)

\* create_record: "if response.status_code == 401 and retry_count < 3" and, in the
\* handler, "if retry_count < 3"
CreateRecord(t) ==
  /\ op[t] = "create_record"
  /\ Request(t, retry_count[t] < RetryLimit, retry_count[t] < RetryLimit)

\* except: time.sleep(1); return self.create_record(module, data, retry_count + 1)
Sleep(t) ==
  /\ zpc[t] = "sleep"
  /\ Note(t, hist, refreshes, rejected, sleeps + 1)
  /\ zpc' = [zpc EXCEPT ![t] = "request"]
  /\ retry_count' = [retry_count EXCEPT ![t] = @ + 1]
  /\ UNCHANGED <<access_token, current_domain, token_lock, op, dom_i, result>>
  /\ UNCHANGED nonZohoVars

\* update_record: a 401 refreshes and calls again, whatever the depth; an
\* exception is logged and None returned
UpdateRecord(t) == op[t] = "update_record" /\ Request(t, TRUE, FALSE)

\* get_existing_unit: the same shape
GetExistingUnit(t) == op[t] = "get_existing_unit" /\ Request(t, TRUE, FALSE)

\* get_contact_by_odoo_id: the same shape
GetContactByOdooId(t) == op[t] = "get_contact_by_odoo_id" /\ Request(t, TRUE, FALSE)

AcquireTokenLockUnguarded(t) ==
  /\ zpc[t] = "lock"
  /\ token_lock' = t
  /\ zpc' = [zpc EXCEPT ![t] = "refresh"]
  /\ dom_i' = [dom_i EXCEPT ![t] = 1]
  /\ Note(t, hist, refreshes + 1, rejected, sleeps)
  /\ UNCHANGED <<access_token, current_domain, op, retry_count, result>>
  /\ UNCHANGED nonZohoVars

\* refresh_token: with self.token_lock
AcquireTokenLock(t) ==
  /\ zpc[t] = "lock"
  /\ token_lock = 0
  /\ token_lock' = t
  /\ zpc' = [zpc EXCEPT ![t] = "refresh"]
  /\ dom_i' = [dom_i EXCEPT ![t] = 1]
  /\ Note(t, hist, refreshes + 1, rejected, sleeps)
  /\ UNCHANGED <<access_token, current_domain, op, retry_count, result>>
  /\ UNCHANGED nonZohoVars

\* try_refresh_token(domain) returns True: token and endpoint are stored, the
\* lock is released and the method is called again
RefreshAccepted(t) ==
  /\ zpc[t] = "refresh"
  /\ access_token' = dom_i[t]
  /\ current_domain' = dom_i[t]
  /\ token_lock' = 0
  /\ zpc' = [zpc EXCEPT ![t] = "request"]
  /\ retry_count' = [retry_count EXCEPT ![t] =
       IF op[t] = "create_record" THEN @ + 1 ELSE @]
  /\ dom_i' = [dom_i EXCEPT ![t] = 0]
  /\ UNCHANGED <<op, result, hist, refreshes, rejected, sleeps>>
  /\ UNCHANGED nonZohoVars

RefreshRejectedGivesUpEarly(t) ==
  /\ zpc[t] = "refresh"
  /\ token_lock' = 0
  /\ Note(t, hist, refreshes, rejected + 1, sleeps)
  /\ dom_i' = [dom_i EXCEPT ![t] = 0]
  /\ IF op[t] = "create_record" /\ retry_count[t] < RetryLimit
     THEN /\ zpc' = [zpc EXCEPT ![t] = "sleep"]
          /\ UNCHANGED <<result, retry_count>>
     ELSE Return(t, "None")
  /\ UNCHANGED <<access_token, current_domain, op>>
  /\ UNCHANGED nonZohoVars

RefreshRejectedClearsToken(t) ==
  /\ zpc[t] = "refresh"
  /\ IF dom_i[t] < NumDomains
     THEN /\ dom_i' = [dom_i EXCEPT ![t] = @ + 1]
          /\ UNCHANGED <<token_lock, zpc, result, retry_count, hist, refreshes,
                         rejected, sleeps, access_token, current_domain>>
     ELSE /\ token_lock' = 0
          /\ access_token' = 0
          /\ current_domain' = 0
          /\ Note(t, hist, refreshes, rejected + 1, sleeps)
          /\ dom_i' = [dom_i EXCEPT ![t] = 0]
          /\ IF op[t] = "create_record" /\ retry_count[t] < RetryLimit
             THEN /\ zpc' = [zpc EXCEPT ![t] = "sleep"]
                  /\ UNCHANGED <<result, retry_count>>
             ELSE Return(t, "None")
  /\ UNCHANGED op
  /\ UNCHANGED nonZohoVars

\* try_refresh_token(domain) returns False (a non-200 answer or an exception);
\* after the last endpoint refresh_token raises into the caller's handler
RefreshRejected(t) ==
  /\ zpc[t] = "refresh"
  /\ IF dom_i[t] < NumDomains
     THEN /\ dom_i' = [dom_i EXCEPT ![t] = @ + 1]
          /\ UNCHANGED <<token_lock, zpc, result, retry_count, hist, refreshes,
                         rejected, sleeps>>
     ELSE /\ token_lock' = 0
          /\ Note(t, hist, refreshes, rejected + 1, sleeps)
          /\ dom_i' = [dom_i EXCEPT ![t] = 0]
          /\ IF op[t] = "create_record" /\ retry_count[t] < RetryLimit
             THEN /\ zpc' = [zpc EXCEPT ![t] = "sleep"]
                  /\ UNCHANGED <<result, retry_count>>
             ELSE Return(t, "None")
  /\ UNCHANGED <<access_token, current_domain, op>>
  /\ UNCHANGED nonZohoVars

ClientSteps ==
  \E t \in Threads :
    \/ Call(t)
    \/ CreateRecord(t)
    \/ Sleep(t)
    \/ UpdateRecord(t)
    \/ GetExistingUnit(t)
    \/ GetContactByOdooId(t)
    \/ AcquireTokenLock(t)
    \/ RefreshAccepted(t)
    \/ RefreshRejected(t)

OdooQuiet ==
  /\ source = {}
  /\ pool = <<>>
  /\ created = 0
  /\ fpc = [c \in Calls |-> "off"]
  /\ domain = [c \in Calls |-> 0]
  /\ batch_size = [c \in Calls |-> 1]
  /\ total_count = [c \in Calls |-> 0]
  /\ jobs = [c \in Calls |-> <<>>]
  /\ all_records = [c \in Calls |-> <<>>]
  /\ page_errors = [c \in Calls |-> 0]

\* one client call by one thread, recorded
InitZoho ==
  /\ OdooQuiet
  /\ UnitQuiet
  /\ ListQuiet
  /\ MapQuiet /\ SendQuiet /\ ExportQuiet
  /\ ZohoInit
  /\ zpc = [t \in Threads |-> IF t = Observed THEN "idle" ELSE "off"]

SpecZoho == InitZoho /\ [][ClientSteps]_vars

\* the worker threads of a pass use the client at the same time
InitRefresh ==
  /\ OdooQuiet
  /\ UnitQuiet
  /\ ListQuiet
  /\ MapQuiet /\ SendQuiet /\ ExportQuiet
  /\ ZohoInit
  /\ zpc = [t \in Threads |-> IF t \in Workers THEN "idle" ELSE "off"]

SpecRefresh == InitRefresh /\ [][ClientSteps]_vars

(* ------------------- a request, statement by statement ----------------- *)

\* a worker calls update_record
CallUpdate(t) ==
  /\ zpc[t] = "idle"
  /\ op' = [op EXCEPT ![t] = "update_record"]
  /\ zpc' = [zpc EXCEPT ![t] = "url"]
  /\ UNCHANGED <<access_token, current_domain, token_lock, retry_count, dom_i,
                 result, hist, refreshes, rejected, sleeps>>
  /\ UNCHANGED <<sendVars, exportVars>>
  /\ UNCHANGED <<fetchVars, unitVars, listVars, passVars, workVars, loopVars,
                 mapVars>>

\* url = f"{self.current_domain['base_url']}/{module}/{record_id}"
BuildUrl(t) ==
  /\ zpc[t] = "url"
  /\ url_domain' = [url_domain EXCEPT ![t] = current_domain]
  /\ zpc' = [zpc EXCEPT ![t] = "headers"]
  /\ UNCHANGED <<access_token, current_domain, token_lock, op, retry_count,
                 dom_i, result, hist, refreshes, rejected, sleeps>>
  /\ UNCHANGED <<header_token, exportVars>>
  /\ UNCHANGED <<fetchVars, unitVars, listVars, passVars, workVars, loopVars,
                 mapVars>>

\* headers = {'Authorization': f'Zoho-oauthtoken {self.access_token}', ...}
BuildHeaders(t) ==
  /\ zpc[t] = "headers"
  /\ header_token' = [header_token EXCEPT ![t] = access_token]
  /\ zpc' = [zpc EXCEPT ![t] = "send"]
  /\ UNCHANGED <<access_token, current_domain, token_lock, op, retry_count,
                 dom_i, result, hist, refreshes, rejected, sleeps>>
  /\ UNCHANGED <<url_domain, exportVars>>
  /\ UNCHANGED <<fetchVars, unitVars, listVars, passVars, workVars, loopVars,
                 mapVars>>

\* response = requests.put(url, headers=headers, json=payload): a 401 leads to
\* refresh_token(), an exception to None, any other answer is returned
Send(t) ==
  /\ zpc[t] = "send"
  /\ \E r \in Resp :
       IF r = "unauthorized"
       THEN /\ zpc' = [zpc EXCEPT ![t] = "lock"]
            /\ UNCHANGED <<result, retry_count>>
       ELSE Return(t, IF r = "raise" THEN "None" ELSE r)
  /\ UNCHANGED <<access_token, current_domain, token_lock, op, dom_i, hist,
                 refreshes, rejected, sleeps>>
  /\ UNCHANGED <<sendVars, exportVars>>
  /\ UNCHANGED <<fetchVars, unitVars, listVars, passVars, workVars, loopVars,
                 mapVars>>

\* try_refresh_token: self.access_token = response.json()['access_token']
StoreToken(t) ==
  /\ zpc[t] = "refresh"
  /\ access_token' = dom_i[t]
  /\ zpc' = [zpc EXCEPT ![t] = "store_domain"]
  /\ UNCHANGED <<current_domain, token_lock, op, retry_count, dom_i, result,
                 hist, refreshes, rejected, sleeps>>
  /\ UNCHANGED <<sendVars, exportVars>>
  /\ UNCHANGED <<fetchVars, unitVars, listVars, passVars, workVars, loopVars,
                 mapVars>>

\* try_refresh_token: self.current_domain = domain; return True; the lock is
\* released and update_record calls itself
StoreDomain(t) ==
  /\ zpc[t] = "store_domain"
  /\ current_domain' = dom_i[t]
  /\ token_lock' = 0
  /\ dom_i' = [dom_i EXCEPT ![t] = 0]
  /\ zpc' = [zpc EXCEPT ![t] = "url"]
  /\ UNCHANGED <<access_token, op, retry_count, result, hist, refreshes,
                 rejected, sleeps>>
  /\ UNCHANGED <<sendVars, exportVars>>
  /\ UNCHANGED <<fetchVars, unitVars, listVars, passVars, workVars, loopVars,
                 mapVars>>

NextSend ==
  \E t \in Workers :
    \/ CallUpdate(t)
    \/ BuildUrl(t)
    \/ BuildHeaders(t)
    \/ Send(t)
    \/ AcquireTokenLock(t)
    \/ StoreToken(t)
    \/ StoreDomain(t)
    \/ RefreshRejected(t)

\* the worker threads of a pass update records at the same time
InitSend ==
  /\ OdooQuiet
  /\ UnitQuiet
  /\ ListQuiet
  /\ MapQuiet
  /\ SendQuiet
  /\ ExportQuiet
  /\ ZohoInit
  /\ zpc = [t \in Threads |-> IF t \in Workers THEN "idle" ELSE "off"]

SpecSend == InitSend /\ [][NextSend]_vars

(* ----------------------------- unit pass ------------------------------- *)

\* dict.get(key): "None" stands for Python's None, "" for Odoo's False;
\* owner_id holds str(owner_id[0]), "" when the unit has no owner
Get(rec, key) == IF key \in DOMAIN rec THEN rec[key] ELSE "None"
Falsy(v) == v \in {"None", ""}

\* the entries of unit_fields in migrate_units that the pass reads; the list
\* does not name ownership_type
unit_fields == {"name", "property_code", "owner_id"}

\* execute_kw(model, 'read', [ids], {'fields': fields}): id and the named fields
ReadFields(rec, fields) ==
  [f \in (DOMAIN rec) \cap (fields \cup {"id"}) |-> rec[f]]

\* the dict comprehension that closes map_unit
DropBlanks(rec) ==
  [k \in {f \in DOMAIN rec : rec[f] \notin {"None", ""}} |-> rec[k]]

\* UnitMapper.map_unit, for the fields the pass depends on
map_unit(odoo_unit, is_update) ==
  IF Falsy(Get(odoo_unit, "name")) THEN "None"
  ELSE IF Get(odoo_unit, "ownership_type") \notin {"freehold", "leashold"} THEN "None"
  ELSE DropBlanks([Unit_Code |-> Get(odoo_unit, "property_code"),
                   Property_Title |-> Get(odoo_unit, "name")])

RECURSIVE BuildMap(_, _)
\* get_contact_map: every Mobile and every Email of a listed contact leads to
\* the contact's id; a later contact overwrites an earlier one's key
BuildMap(contacts, i) ==
  IF i = 0 THEN <<>>
  ELSE LET before == BuildMap(contacts, i - 1)
           c == contacts[i]
           keys == {k \in {c.Mobile, c.Email} : k # ""}
       IN [k \in (DOMAIN before) \cup keys |-> IF k \in keys THEN i ELSE before[k]]

get_contact_map(contacts) == BuildMap(contacts, Len(contacts))

\* ZohoClient.get_existing_unit: the first record of CustomModule1 whose
\* Unit_Code equals the code, 0 when there is none
get_existing_unit(dest_units, unit_code) ==
  LET hits == {i \in DOMAIN dest_units :
                 /\ dest_units[i].module = "CustomModule1"
                 /\ dest_units[i].Unit_Code = unit_code}
  IN IF hits = {} THEN 0 ELSE CHOOSE i \in hits : \A j \in hits : i <= j

\* ZohoClient.get_contact_by_odoo_id: the first contact whose Odoo_ID equals
get_contact_by_odoo_id(contacts, odoo_id) ==
  LET hits == {i \in DOMAIN contacts : contacts[i].Odoo_ID = odoo_id}
  IN IF hits = {} THEN 0 ELSE CHOOSE i \in hits : \A j \in hits : i <= j

\* the contact_data of create_owner_contact as the destination stores it
OwnerContact(owner_data) ==
  [Email |-> Get(owner_data, "email"), Phone |-> Get(owner_data, "phone"),
   Mobile |-> Get(owner_data, "mobile"), Odoo_ID |-> ""]

InMap(map, key) == ~Falsy(key) /\ key \in DOMAIN map

\* get_or_create_owner_contact and create_owner_contact:
\* the contact id to link (0: None) and the contacts afterwards
get_or_create_owner_contact(owner_data, map, contacts) ==
  IF InMap(map, Get(owner_data, "email"))
  THEN [id |-> map[Get(owner_data, "email")], contacts |-> contacts]
  ELSE IF InMap(map, Get(owner_data, "phone"))
  THEN [id |-> map[Get(owner_data, "phone")], contacts |-> contacts]
  ELSE IF InMap(map, Get(owner_data, "mobile"))
  THEN [id |-> map[Get(owner_data, "mobile")], contacts |-> contacts]
  ELSE IF Falsy(Get(owner_data, "name"))
  THEN [id |-> 0, contacts |-> contacts]
  ELSE [id |-> Len(contacts) + 1,
        contacts |-> Append(contacts, OwnerContact(owner_data))]

\* the owner part of the loop body of process_unit_batch
OwnerLink(unit, map, contacts) ==
  IF Falsy(Get(unit, "owner_id"))
  THEN [id |-> 0, contacts |-> contacts]
  ELSE LET owner_contact == get_contact_by_odoo_id(contacts, Get(unit, "owner_id"))
       IN IF owner_contact # 0
          THEN [id |-> owner_contact, contacts |-> contacts]
          ELSE get_or_create_owner_contact(partner, map, contacts)

UnitInit ==
  /\ units \in [1..NumUnits ->
       [name : {"", "u"}, property_code : {"c1"}, owner_id : {"", "1"},
        ownership_type : {"freehold", "other"}]]
  /\ partner \in [id : {"1"}, name : {"", "Bob"}, email : {"", "e1"},
                  phone : {"", "p1"}, mobile : {"", "m1"}]
  /\ zoho_contacts \in
       {<<>>,
        <<[Email |-> "e1", Phone |-> "", Mobile |-> "", Odoo_ID |-> ""]>>,
        <<[Email |-> "", Phone |-> "", Mobile |-> "", Odoo_ID |-> "1"]>>}
  /\ zoho_units \in {<<>>, <<[module |-> "CustomModule1", Unit_Code |-> "c1"]>>}
  /\ contact_map = <<>>
  /\ upc = "start"
  /\ run = 1
  /\ fetched = <<>>
  /\ idx = 0
  /\ success_count = 0
  /\ error_count = 0
  /\ skipped_count = 0
  /\ processed_count = 0
  /\ new_records = [r \in {1, 2} |-> 0]

\* migrate_units: reset_statistics, check_available_modules
StartPass ==
  /\ upc = "start"
  /\ success_count' = 0
  /\ error_count' = 0
  /\ skipped_count' = 0
  /\ processed_count' = 0
  /\ upc' = "index"
  /\ UNCHANGED <<units, partner, zoho_contacts, zoho_units, contact_map, run,
                 fetched, idx, new_records>>
  /\ UNCHANGED nonUnitVars

\* contact_map = self.zoho_client.get_contact_map()
BuildContactMap ==
  /\ upc = "index"
  /\ contact_map' = get_contact_map(zoho_contacts)
  /\ upc' = "fetch"
  /\ UNCHANGED <<units, partner, zoho_contacts, zoho_units, run, fetched, idx,
                 success_count, error_count, skipped_count, processed_count,
                 new_records>>
  /\ UNCHANGED nonUnitVars

\* units = self.odoo_client.fetch_records('account.asset.asset', fields=unit_fields)
FetchUnits ==
  /\ upc = "fetch"
  /\ fetched' = [k \in DOMAIN units |-> ReadFields(units[k], unit_fields)]
  /\ idx' = 1
  /\ upc' = "process"
  /\ UNCHANGED <<units, partner, zoho_contacts, zoho_units, contact_map, run,
                 success_count, error_count, skipped_count, processed_count,
                 new_records>>
  /\ UNCHANGED nonUnitVars

\* a destination request (GET .../search, POST, PUT) or a rate-limit sleep
Req(what, module) == [req |-> what, module |-> module]

\* what the loop body of process_unit_batch sends for one unit, in order:
\* get_existing_unit, get_contact_by_odoo_id for a unit with an owner,
\* create_record('Contacts') when the owner contact is created, and the unit's
\* write followed by time.sleep(RATE_LIMIT_DELAY) when the mapping succeeded
UnitRequests(unit, made, zoho_unit, is_update) ==
  <<Req("search", "CustomModule1")>>
  \o (IF Falsy(Get(unit, "owner_id")) THEN <<>> ELSE <<Req("search", "Contacts")>>)
  \o (IF made > 0 THEN <<Req("create", "Contacts")>> ELSE <<>>)
  \o (IF zoho_unit = "None" THEN <<>>
      ELSE <<Req(IF is_update THEN "update" ELSE "create", "Properties_Units"),
             Req("sleep", "")>>)

TakeNextUnchecked ==
  /\ upc = "process"
  /\ idx <= Len(fetched)
  /\ ~inflight
  /\ inflight' = TRUE
  /\ UNCHANGED <<stop_event, sent>>
  /\ UNCHANGED <<fetchVars, zohoVars, unitVars, listVars, passVars, workVars,
                 mapVars, sendVars, exportVars>>

\* 'for lead in batch' / 'for unit in batch': the next record is taken unless
\* 'if self.stop_event.is_set(): break'
TakeNext ==
  /\ upc = "process"
  /\ idx <= Len(fetched)
  /\ ~inflight
  /\ ~stop_event
  /\ inflight' = TRUE
  /\ UNCHANGED <<stop_event, sent>>
  /\ UNCHANGED <<fetchVars, zohoVars, unitVars, listVars, passVars, workVars,
                 mapVars, sendVars, exportVars>>

CountExceptionAsErrorOnly ==
  /\ error_count' = error_count + 1
  /\ UNCHANGED processed_count

\* 'except Exception as e: self.error_count += 1 ... self.processed_count += 1'
CountException ==
  /\ error_count' = error_count + 1
  /\ processed_count' = processed_count + 1

\* the loop body of process_unit_batch reads the owner from the source
FetchesOwner(unit, contacts) ==
  /\ ~Falsy(Get(unit, "owner_id"))
  /\ get_contact_by_odoo_id(contacts, Get(unit, "owner_id")) = 0

\* process_unit_batch: the loop body for one unit, every destination request
\* answered; the read of the owner from the source may raise, which the
\* handler of the loop body counts as an error
ProcessUnit ==
  /\ upc = "process"
  /\ idx <= Len(fetched)
  /\ inflight
  /\ inflight' = FALSE
  /\ \E raised \in BOOLEAN :
     LET unit == fetched[idx]
         existing_unit == get_existing_unit(zoho_units, Get(unit, "property_code"))
         is_update == existing_unit # 0
         link == OwnerLink(unit, contact_map, zoho_contacts)
         zoho_unit == map_unit(unit, is_update)
         made == Len(link.contacts) - Len(zoho_contacts)
     IN /\ raised => FetchesOwner(unit, zoho_contacts)
        /\ zoho_contacts' = IF raised THEN zoho_contacts ELSE link.contacts
        /\ sent' = sent \o (IF raised THEN UnitRequests(unit, 0, "None", is_update)
                            ELSE UnitRequests(unit, made, zoho_unit, is_update))
        /\ IF raised
           THEN /\ CountException
                /\ UNCHANGED <<zoho_units, success_count, skipped_count,
                               new_records>>
           ELSE IF zoho_unit = "None"
           THEN /\ skipped_count' = skipped_count + 1
                /\ new_records' = [new_records EXCEPT ![run] = @ + made]
                /\ UNCHANGED <<zoho_units, success_count, error_count,
                               processed_count>>
           ELSE /\ success_count' = success_count + 1
                /\ processed_count' = processed_count + 1
                /\ UNCHANGED <<skipped_count, error_count>>
                /\ IF is_update
                   THEN /\ zoho_units' = [zoho_units EXCEPT ![existing_unit] =
                              [f \in DOMAIN @ \cup DOMAIN zoho_unit |->
                                 IF f \in DOMAIN zoho_unit THEN zoho_unit[f] ELSE @[f]]]
                        /\ new_records' = [new_records EXCEPT ![run] = @ + made]
                   ELSE /\ zoho_units' = Append(zoho_units,
                              [module |-> "Properties_Units",
                               Unit_Code |-> Get(zoho_unit, "Unit_Code")])
                        /\ new_records' = [new_records EXCEPT ![run] = @ + made + 1]
  /\ idx' = idx + 1
  /\ UNCHANGED <<units, partner, contact_map, upc, run, fetched>>
  /\ UNCHANGED <<fetchVars, zohoVars, listVars, passVars, workVars, mapVars, sendVars, exportVars>>
  /\ UNCHANGED stop_event

\* every batch was processed: the summary is logged and migrate_units returns
Summary ==
  /\ upc = "process"
  /\ idx > Len(fetched)
  /\ upc' = "done"
  /\ UNCHANGED <<units, partner, zoho_contacts, zoho_units, contact_map, run,
                 fetched, idx, success_count, error_count, skipped_count,
                 processed_count, new_records>>
  /\ UNCHANGED nonUnitVars

\* the migration is started again against the same source
RunAgain ==
  /\ upc = "done"
  /\ run = 1
  /\ run' = 2
  /\ upc' = "start"
  /\ UNCHANGED <<units, partner, zoho_contacts, zoho_units, contact_map,
                 fetched, idx, success_count, error_count, skipped_count,
                 processed_count, new_records>>
  /\ UNCHANGED nonUnitVars

NextUnits ==
  \/ StartPass
  \/ BuildContactMap
  \/ FetchUnits
  \/ TakeNext
  \/ ProcessUnit
  \/ Summary
  \/ RunAgain

InitUnits == OdooQuiet /\ ZohoQuiet /\ UnitInit /\ ListQuiet /\ MapQuiet /\ SendQuiet /\ ExportQuiet

SpecUnits == InitUnits /\ [][NextUnits]_vars

(* ------------------------- identity listing ---------------------------- *)

\* data['data'] of GET /Contacts?page=p&per_page=per_page: indices of the contacts
ContactsPage(contacts, p) ==
  {i \in DOMAIN contacts : (p - 1) * per_page < i /\ i <= p * per_page}

RECURSIVE IndexContacts(_, _, _)
\* for contact in data['data']: contact_map[Mobile] = id, contact_map[Email] = id
IndexContacts(map, contacts, todo) ==
  IF todo = {} THEN map
  ELSE LET i == CHOOSE k \in todo : \A j \in todo : k <= j
           withMobile ==
             IF contacts[i].Mobile # ""
             THEN [k \in (DOMAIN map) \cup {contacts[i].Mobile} |->
                     IF k = contacts[i].Mobile THEN i ELSE map[k]]
             ELSE map
           withEmail ==
             IF contacts[i].Email # ""
             THEN [k \in (DOMAIN withMobile) \cup {contacts[i].Email} |->
                     IF k = contacts[i].Email THEN i ELSE withMobile[k]]
             ELSE withMobile
       IN IndexContacts(withEmail, contacts, todo \ {i})

ListInit ==
  /\ units = <<>>
  /\ partner = <<>>
  /\ zoho_contacts \in UNION {[1..n -> [Email : {"", "e1"}, Phone : {""},
                                        Mobile : {"", "m1"}, Odoo_ID : {""}]] :
                                n \in 0..MaxContacts}
  /\ zoho_units = <<>>
  /\ contact_map = <<>>
  /\ upc = "off"
  /\ run = 0
  /\ fetched = <<>>
  /\ idx = 0
  /\ success_count = 0
  /\ error_count = 0
  /\ skipped_count = 0
  /\ processed_count = 0
  /\ new_records = <<>>
  /\ lpc = "idle"
  /\ page = 1
  /\ list_error = FALSE
  /\ kind = "units"
  /\ leads = <<>>
  /\ zoho_leads = <<>>
  /\ wpc = [w \in Workers |-> "off"]
  /\ wleft = [w \in Workers |-> 0]
  /\ wout = [w \in Workers |-> "none"]
  /\ wtmp = [w \in Workers |-> 0]
  /\ tally = <<>>
  /\ LoopQuiet
  /\ MapQuiet /\ SendQuiet /\ ExportQuiet

\* get_contact_map(): contact_map = {}, page = 1
GetContactMap ==
  /\ lpc = "idle"
  /\ contact_map' = <<>>
  /\ page' = 1
  /\ list_error' = FALSE
  /\ lpc' = "request"
  /\ UNCHANGED <<units, partner, zoho_contacts, zoho_units, upc, run, fetched,
                 idx, success_count, error_count, skipped_count,
                 processed_count, new_records>>
  /\ UNCHANGED <<nonListVars, zohoVars>>

\* the page is answered with its body: no data ends the loop, data is indexed
\* and the next page is asked for
ListPage ==
  /\ lpc = "request"
  /\ current_domain # 0
  /\ LET data == ContactsPage(zoho_contacts, page)
     IN IF data = {}
        THEN /\ lpc' = "done"
             /\ UNCHANGED <<contact_map, page>>
        ELSE /\ contact_map' = IndexContacts(contact_map, zoho_contacts, data)
             /\ page' = page + 1
             /\ UNCHANGED lpc
  /\ UNCHANGED list_error
  /\ UNCHANGED <<units, partner, zoho_contacts, zoho_units, upc, run, fetched,
                 idx, success_count, error_count, skipped_count,
                 processed_count, new_records>>
  /\ UNCHANGED <<nonListVars, zohoVars>>

\* response.status_code == 401: self.refresh_token()
ListUnauthorized ==
  /\ lpc = "request"
  /\ current_domain # 0
  /\ lpc' = "refresh"
  /\ UNCHANGED <<page, list_error>>
  /\ UNCHANGED <<nonListVars, zohoVars, unitVars>>

ListRaisesToCaller ==
  /\ lpc = "request"
  /\ list_error' = TRUE
  /\ lpc' = "raised"
  /\ UNCHANGED page
  /\ UNCHANGED <<nonListVars, zohoVars, unitVars>>

\* the request or response.json() raises (or there is no current endpoint):
\* the error is logged and the loop is left
ListRaises ==
  /\ lpc = "request"
  /\ list_error' = TRUE
  /\ lpc' = "done"
  /\ UNCHANGED page
  /\ UNCHANGED <<nonListVars, zohoVars, unitVars>>

\* refresh_token() returns, an endpoint having accepted: 'continue'
ListRefreshAccepted ==
  /\ lpc = "refresh"
  /\ token_lock = 0
  /\ \E d \in 1..NumDomains :
       /\ access_token' = d
       /\ current_domain' = d
  /\ lpc' = "request"
  /\ UNCHANGED <<page, list_error>>
  /\ UNCHANGED <<token_lock, zpc, op, retry_count, dom_i, result, hist,
                 refreshes, rejected, sleeps>>
  /\ UNCHANGED <<nonListVars, unitVars>>

\* refresh_token() raises, every endpoint having rejected: logged, loop left
ListRefreshRaises ==
  /\ lpc = "refresh"
  /\ token_lock = 0
  /\ list_error' = TRUE
  /\ lpc' = "done"
  /\ UNCHANGED page
  /\ UNCHANGED <<nonListVars, zohoVars, unitVars>>

ListSteps ==
  \/ ListPage
  \/ ListUnauthorized
  \/ ListRaises
  \/ ListRefreshAccepted
  \/ ListRefreshRaises

NextList == GetContactMap \/ ListSteps

InitList ==
  /\ OdooQuiet
  /\ ZohoInit
  /\ zpc = [t \in Threads |-> "off"]
  /\ ListInit

SpecList == InitList /\ [][NextList]_vars

\* the thread that lists keeps running
SpecListFair == SpecList /\ WF_vars(NextList)

(* ------------------------------ a pass --------------------------------- *)

\* lead_fields of migrate_leads that the pass reads
lead_fields == {"name", "email_from", "mobile"}

\* MigrationManager.find_contact_id (0: None)
find_contact_id(lead, map) ==
  IF InMap(map, Get(lead, "mobile")) THEN map[Get(lead, "mobile")]
  ELSE IF InMap(map, Get(lead, "email_from")) THEN map[Get(lead, "email_from")]
  ELSE 0

\* LeadMapper.map_lead, for a lead without partner_name and contact_name
map_lead(odoo_lead, contact_id) ==
  [Company |-> IF Falsy(Get(odoo_lead, "name")) THEN "Unknown Company"
               ELSE Get(odoo_lead, "name"),
   Last_Name |-> "Unknown",
   Contact_Id |-> contact_id]

\* the records of the model the pass migrates
SourceRecords == IF kind = "leads" THEN leads ELSE units

PassInit ==
  /\ kind \in {"leads", "units"}
  /\ units \in UNION {[1..n -> [name : {"u"}, property_code : {"c1"},
                                owner_id : {"", "1"},
                                ownership_type : {"freehold"}]] :
                        n \in 0..NumUnits}
  /\ leads \in UNION {[1..n -> [name : {"l"}, mobile : {"", "m1"},
                                email_from : {""}]] :
                        n \in 0..NumUnits}
  /\ IF kind = "leads" THEN units = <<>> ELSE leads = <<>>
  /\ partner = [id |-> "1", name |-> "Bob", email |-> "", phone |-> "",
                mobile |-> "m1"]
  /\ zoho_contacts \in UNION {[1..n -> [Email : {""}, Phone : {""},
                                        Mobile : {"m1"}, Odoo_ID : {""}]] :
                                n \in 0..MaxContacts}
  /\ zoho_units = <<>>
  /\ zoho_leads = <<>>
  /\ contact_map = <<>>
  /\ upc = "start"
  /\ run = 1
  /\ fetched = <<>>
  /\ idx = 0
  /\ success_count = 0
  /\ error_count = 0
  /\ skipped_count = 0
  /\ processed_count = 0
  /\ new_records = [r \in {1, 2} |-> 0]
  /\ lpc = "off"
  /\ page = 1
  /\ list_error = FALSE
  /\ wpc = [w \in Workers |-> "off"]
  /\ wleft = [w \in Workers |-> 0]
  /\ wout = [w \in Workers |-> "none"]
  /\ wtmp = [w \in Workers |-> 0]
  /\ tally = <<>>
  /\ LoopQuiet
  /\ MapQuiet /\ SendQuiet /\ ExportQuiet
  \* the OdooClient of the manager, connected, nothing fetched yet
  /\ source = DOMAIN SourceRecords
  /\ pool = [k \in 1..max_workers |-> k]
  /\ created = max_workers
  /\ fpc = [c \in Calls |-> "off"]
  /\ domain = [c \in Calls |-> 0]
  /\ batch_size = [c \in Calls |-> 1]
  /\ total_count = [c \in Calls |-> 0]
  /\ jobs = [c \in Calls |-> <<>>]
  /\ all_records = [c \in Calls |-> <<>>]
  /\ page_errors = [c \in Calls |-> 0]

\* contact_map = self.zoho_client.get_contact_map(): the call
PassIndex ==
  /\ upc = "index"
  /\ upc' = "indexing"
  /\ contact_map' = <<>>
  /\ page' = 1
  /\ list_error' = FALSE
  /\ lpc' = "request"
  /\ UNCHANGED <<units, partner, zoho_contacts, zoho_units, run, fetched, idx,
                 success_count, error_count, skipped_count, processed_count,
                 new_records>>
  /\ UNCHANGED <<nonListVars, zohoVars>>

PassIndexedEarly ==
  /\ upc = "indexing"
  /\ lpc \in {"request", "done"}
  /\ upc' = "fetch"
  /\ UNCHANGED <<units, partner, zoho_contacts, zoho_units, contact_map, run,
                 fetched, idx, success_count, error_count, skipped_count,
                 processed_count, new_records>>
  /\ UNCHANGED nonUnitVars

\* get_contact_map has returned its dict, whole or partial
PassIndexed ==
  /\ upc = "indexing"
  /\ lpc = "done"
  /\ upc' = "fetch"
  /\ UNCHANGED <<units, partner, zoho_contacts, zoho_units, contact_map, run,
                 fetched, idx, success_count, error_count, skipped_count,
                 processed_count, new_records>>
  /\ UNCHANGED nonUnitVars

\* self.odoo_client.fetch_records(model, fields=..., batch_size=BATCH_SIZE): the call
PassFetch ==
  /\ upc = "fetch"
  /\ fpc[1] = "off"
  /\ upc' = "fetching"
  /\ domain' = [domain EXCEPT ![1] = 0]
  /\ batch_size' = [batch_size EXCEPT ![1] = BATCH_SIZE]
  /\ fpc' = [fpc EXCEPT ![1] = "count"]
  /\ UNCHANGED <<source, pool, created, total_count, jobs, all_records,
                 page_errors>>
  /\ UNCHANGED <<units, partner, zoho_contacts, zoho_units, contact_map, run,
                 fetched, idx, success_count, error_count, skipped_count,
                 processed_count, new_records>>
  /\ UNCHANGED <<zohoVars, listVars, passVars, workVars, loopVars, mapVars, sendVars, exportVars>>

\* fetch_records has returned the records it gathered
PassFetched ==
  /\ upc = "fetching"
  /\ fpc[1] = "done"
  /\ fetched' = [k \in DOMAIN all_records[1] |->
                   ReadFields(SourceRecords[all_records[1][k]],
                              IF kind = "leads" THEN lead_fields ELSE unit_fields)]
  /\ idx' = 1
  /\ upc' = "process"
  /\ UNCHANGED <<units, partner, zoho_contacts, zoho_units, contact_map, run,
                 success_count, error_count, skipped_count, processed_count,
                 new_records>>
  /\ UNCHANGED nonUnitVars

PassFetchRaisedContinues ==
  /\ upc = "fetching"
  /\ fpc[1] = "raised"
  /\ idx' = 1
  /\ upc' = "process"
  /\ UNCHANGED <<units, partner, zoho_contacts, zoho_units, contact_map, run,
                 fetched, success_count, error_count, skipped_count,
                 processed_count, new_records>>
  /\ UNCHANGED nonUnitVars

\* fetch_records raised: 'except Exception' of the pass logs and re-raises
PassFetchRaised ==
  /\ upc = "fetching"
  /\ fpc[1] = "raised"
  /\ upc' = "raised"
  /\ UNCHANGED <<units, partner, zoho_contacts, zoho_units, contact_map, run,
                 fetched, idx, success_count, error_count, skipped_count,
                 processed_count, new_records>>
  /\ UNCHANGED nonUnitVars

\* process_lead_batch: the loop body for one lead: the contact is looked up
\* in contact_map, the lead mapped and created; the result is
\* a success or not (a failure answer, or None after the retries), and the
\* worker sleeps RATE_LIMIT_DELAY
ProcessLead ==
  /\ upc = "process"
  /\ idx <= Len(fetched)
  /\ inflight
  /\ inflight' = FALSE
  /\ LET lead == fetched[idx]
         contact_id == find_contact_id(lead, contact_map)
         zoho_lead == map_lead(lead, contact_id)
     IN \E ok \in BOOLEAN :
          IF ok
          THEN /\ zoho_leads' = Append(zoho_leads, zoho_lead)
               /\ success_count' = success_count + 1
               /\ new_records' = [new_records EXCEPT ![run] = @ + 1]
               /\ UNCHANGED error_count
          ELSE /\ error_count' = error_count + 1
               /\ UNCHANGED <<zoho_leads, success_count, new_records>>
  /\ processed_count' = processed_count + 1
  /\ sent' = sent \o <<Req("create", "Leads"), Req("sleep", "")>>
  /\ idx' = idx + 1
  /\ UNCHANGED <<units, partner, zoho_contacts, zoho_units, contact_map, upc,
                 run, fetched, skipped_count>>
  /\ UNCHANGED <<kind, leads, stop_event>>
  /\ UNCHANGED <<fetchVars, zohoVars, listVars, workVars, mapVars, sendVars, exportVars>>

\* main(): 'except KeyboardInterrupt: ... migration_manager.stop_event.set()'
Interrupt ==
  /\ ~stop_event
  /\ upc \notin {"done", "raised"}
  /\ stop_event' = TRUE
  /\ UNCHANGED <<inflight, sent>>
  /\ UNCHANGED <<fetchVars, zohoVars, unitVars, listVars, passVars, workVars,
                 mapVars, sendVars, exportVars>>

\* 'if self.stop_event.is_set(): break' with records left: the batch returns
\* its results, the progress loop breaks too and the summary is logged
Cancelled ==
  /\ upc = "process"
  /\ idx <= Len(fetched)
  /\ ~inflight
  /\ stop_event
  /\ upc' = "done"
  /\ UNCHANGED <<units, partner, zoho_contacts, zoho_units, contact_map, run,
                 fetched, idx, success_count, error_count, skipped_count,
                 processed_count, new_records>>
  /\ UNCHANGED nonUnitVars

NextPass ==
  \/ StartPass
  \/ PassIndex
  \/ ListSteps
  \/ PassIndexed
  \/ PassFetch
  \/ PageSteps
  \/ PassFetched
  \/ PassFetchRaised
  \/ TakeNext
  \/ (kind = "leads" /\ ProcessLead)
  \/ (kind = "units" /\ ProcessUnit)
  \/ Summary

InitPass ==
  /\ ZohoInit
  /\ zpc = [t \in Threads |-> "off"]
  /\ PassInit

SpecPass == InitPass /\ [][NextPass]_vars

\* a pass that may be interrupted
NextCancel == NextPass \/ Interrupt \/ Cancelled

SpecCancel == InitPass /\ [][NextCancel]_vars

(* ------------------------ workers and counters ------------------------- *)

Outcomes == {"success", "error", "skipped"}

\* a lead is written, fails, or is skipped when map_lead gives None; map_unit
\* returns None for every unit read with unit_fields, so a unit is skipped, or
\* fails on an exception before the mapping
PossibleOutcomes(k) ==
  IF k = "leads" THEN Outcomes ELSE {"skipped", "error"}

\* the counter a record's outcome adds to
CounterOf(o) ==
  IF o = "success" THEN success_count
  ELSE IF o = "error" THEN error_count
  ELSE skipped_count

CountersInit ==
  /\ units = <<>>
  /\ partner = <<>>
  /\ zoho_contacts = <<>>
  /\ zoho_units = <<>>
  /\ contact_map = <<>>
  /\ upc = "process"
  /\ run = 1
  /\ fetched = <<>>
  /\ idx = 0
  /\ success_count = 0
  /\ error_count = 0
  /\ skipped_count = 0
  /\ processed_count = 0
  /\ new_records = <<>>
  /\ lpc = "off"
  /\ page = 1
  /\ list_error = FALSE
  /\ kind \in {"leads", "units"}
  /\ leads = <<>>
  /\ zoho_leads = <<>>
  /\ wpc = [w \in Workers |-> "next"]
  /\ wleft = [w \in Workers |-> BATCH_SIZE]
  /\ wout = [w \in Workers |-> "none"]
  /\ wtmp = [w \in Workers |-> 0]
  /\ tally = [o \in Outcomes |-> 0]
  /\ LoopQuiet
  /\ MapQuiet /\ SendQuiet /\ ExportQuiet

\* 'for lead in batch' / 'for unit in batch': the next record is mapped and
\* written; it is skipped (mapping None), succeeds, or fails (a non-success
\* result or an exception)
TakeRecord(w) ==
  /\ wpc[w] = "next"
  /\ wleft[w] > 0
  /\ \E o \in PossibleOutcomes(kind) :
       /\ wout' = [wout EXCEPT ![w] = o]
       /\ tally' = [tally EXCEPT ![o] = @ + 1]
  /\ wleft' = [wleft EXCEPT ![w] = @ - 1]
  /\ wpc' = [wpc EXCEPT ![w] = "load"]
  /\ UNCHANGED wtmp
  /\ UNCHANGED <<fetchVars, zohoVars, unitVars, listVars, passVars, loopVars, mapVars, sendVars, exportVars>>

\* 'self.<outcome>_count += 1': the attribute is read
LoadCounter(w) ==
  /\ wpc[w] = "load"
  /\ wtmp' = [wtmp EXCEPT ![w] = CounterOf(wout[w])]
  /\ wpc' = [wpc EXCEPT ![w] = "store"]
  /\ UNCHANGED <<wleft, wout, tally>>
  /\ UNCHANGED <<fetchVars, zohoVars, unitVars, listVars, passVars, loopVars, mapVars, sendVars, exportVars>>

\* 'self.<outcome>_count += 1': the sum is stored; a skipped record continues
\* with the next record, the others go on to processed_count
StoreCounter(w) ==
  /\ wpc[w] = "store"
  /\ success_count' = IF wout[w] = "success" THEN wtmp[w] + 1 ELSE success_count
  /\ error_count' = IF wout[w] = "error" THEN wtmp[w] + 1 ELSE error_count
  /\ skipped_count' = IF wout[w] = "skipped" THEN wtmp[w] + 1 ELSE skipped_count
  /\ wpc' = [wpc EXCEPT ![w] = IF wout[w] = "skipped" THEN "next" ELSE "load_processed"]
  /\ UNCHANGED <<wleft, wout, wtmp, tally>>
  /\ UNCHANGED <<units, partner, zoho_contacts, zoho_units, contact_map, upc,
                 run, fetched, idx, processed_count, new_records>>
  /\ UNCHANGED <<fetchVars, zohoVars, listVars, passVars, loopVars, mapVars, sendVars, exportVars>>

\* 'self.processed_count += 1': the attribute is read
LoadProcessed(w) ==
  /\ wpc[w] = "load_processed"
  /\ wtmp' = [wtmp EXCEPT ![w] = processed_count]
  /\ wpc' = [wpc EXCEPT ![w] = "store_processed"]
  /\ UNCHANGED <<wleft, wout, tally>>
  /\ UNCHANGED <<fetchVars, zohoVars, unitVars, listVars, passVars, loopVars, mapVars, sendVars, exportVars>>

\* 'self.processed_count += 1': the sum is stored
StoreProcessed(w) ==
  /\ wpc[w] = "store_processed"
  /\ processed_count' = wtmp[w] + 1
  /\ wpc' = [wpc EXCEPT ![w] = "next"]
  /\ UNCHANGED <<wleft, wout, wtmp, tally>>
  /\ UNCHANGED <<units, partner, zoho_contacts, zoho_units, contact_map, upc,
                 run, fetched, idx, success_count, error_count, skipped_count,
                 new_records>>
  /\ UNCHANGED <<fetchVars, zohoVars, listVars, passVars, loopVars, mapVars, sendVars, exportVars>>

\* the batch is exhausted: 'return results'
EndBatch(w) ==
  /\ wpc[w] = "next"
  /\ wleft[w] = 0
  /\ wpc' = [wpc EXCEPT ![w] = "end"]
  /\ UNCHANGED <<wleft, wout, wtmp, tally>>
  /\ UNCHANGED <<fetchVars, zohoVars, unitVars, listVars, passVars, loopVars, mapVars, sendVars, exportVars>>

NextCounters ==
  \E w \in Workers :
    \/ TakeRecord(w)
    \/ LoadCounter(w)
    \/ StoreCounter(w)
    \/ LoadProcessed(w)
    \/ StoreProcessed(w)
    \/ EndBatch(w)

InitCounters == OdooQuiet /\ ZohoQuiet /\ CountersInit

SpecCounters == InitCounters /\ [][NextCounters]_vars

(* ------------------------------ mappers -------------------------------- *)

\* Python values of a record field: None, False (what Odoo returns for a field
\* that is not set), a non-zero number and a str; a str is the sequence of its
\* characters, a literal of the code one token; Missing: the key is not there
None == [t |-> "NoneType", s |-> <<>>]
False == [t |-> "bool", s |-> <<>>]
Missing == [t |-> "missing", s |-> <<>>]
Text(chars) == [t |-> "str", s |-> chars]
Number(digits) == [t |-> "float", s |-> digits]
Const(literal) == Text(<<literal>>)
\* an exception leaves the expression
Raised == [t |-> "raised", s |-> <<>>]

\* 'if v', 'if not v'
Truthy(v) == v.t = "float" \/ (v.t = "str" /\ v.s # <<>>)

\* dict.get(key, default)
DictGet(d, key, default) ==
  IF key \in DOMAIN d /\ d[key] # Missing THEN d[key] ELSE default

\* str(v) and the {v} of an f-string
str(v) ==
  IF v.t = "NoneType" THEN Const("None")
  ELSE IF v.t = "bool" THEN Const("False")
  ELSE Text(v.s)

Lower == <<"a", "b", "c", "d", "e", "f", "g", "h", "i", "j", "k", "l", "m",
           "n", "o", "p", "q", "r", "s", "t", "u", "v", "w", "x", "y", "z">>
Upper == <<"A", "B", "C", "D", "E", "F", "G", "H", "I", "J", "K", "L", "M",
           "N", "O", "P", "Q", "R", "S", "T", "U", "V", "W", "X", "Y", "Z">>
Digits == {"0", "1", "2", "3", "4", "5", "6", "7", "8", "9"}

IsLetter(c) == \E k \in DOMAIN Lower : c \in {Lower[k], Upper[k]}
IsDigit(c) == c \in Digits
IsSpace(c) == c = " "
\* \w of a regular expression
IsWord(c) == IsLetter(c) \/ IsDigit(c) \/ c = "_"

\* str.lower()
lower(chars) ==
  [i \in DOMAIN chars |->
     IF \E k \in DOMAIN Upper : Upper[k] = chars[i]
     THEN Lower[CHOOSE k \in DOMAIN Upper : Upper[k] = chars[i]]
     ELSE chars[i]]

\* the characters of chars at the positions in keep, in order
Pick(chars, keep) ==
  LET at == SelectSeq([i \in DOMAIN chars |-> i], LAMBDA i : i \in keep)
  IN [k \in DOMAIN at |-> chars[at[k]]]

\* str.strip()
strip(chars) ==
  Pick(chars, {i \in DOMAIN chars :
                 /\ \E j \in 1..i : ~IsSpace(chars[j])
                 /\ \E j \in i..Len(chars) : ~IsSpace(chars[j])})

\* ' '.join(name.split()): the words, one space between two of them
join_split(chars) ==
  Pick(chars, {i \in DOMAIN chars :
                 \/ ~IsSpace(chars[i])
                 \/ /\ i > 1
                    /\ ~IsSpace(chars[i - 1])
                    /\ \E j \in i..Len(chars) : ~IsSpace(chars[j])})

\* str.split(' ', 1)
split(chars) ==
  LET spaces == {i \in DOMAIN chars : chars[i] = " "}
  IN IF spaces = {} THEN <<chars>>
     ELSE LET p == CHOOSE i \in spaces : \A j \in spaces : i <= j
          IN <<SubSeq(chars, 1, p - 1), SubSeq(chars, p + 1, Len(chars))>>

\* re.match(r'^[a-zA-Z0-9._%+-]+@[a-zA-Z0-9.-]+\.[a-zA-Z]{2,}$', email)
EmailPattern(e) ==
  \E at \in DOMAIN e, dot \in DOMAIN e :
    /\ at > 1
    /\ \A i \in 1..(at - 1) :
         IsLetter(e[i]) \/ IsDigit(e[i]) \/ e[i] \in {".", "_", "%", "+", "-"}
    /\ e[at] = "@"
    /\ dot > at + 1
    /\ \A i \in (at + 1)..(dot - 1) :
         IsLetter(e[i]) \/ IsDigit(e[i]) \/ e[i] \in {".", "-"}
    /\ e[dot] = "."
    /\ Len(e) >= dot + 2
    /\ \A i \in (dot + 1)..Len(e) : IsLetter(e[i])

\* DataValidator.validate_email
validate_email(email) ==
  IF ~Truthy(email) THEN None
  ELSE LET e == lower(strip(email.s))
       IN IF EmailPattern(e) THEN Text(e) ELSE None

validate_phone_any_length(phone) ==
  IF ~Truthy(phone) THEN None
  ELSE Text(SelectSeq(phone.s, IsDigit))

\* DataValidator.validate_phone
validate_phone(phone) ==
  IF ~Truthy(phone) THEN None
  ELSE LET digits == SelectSeq(phone.s, IsDigit)
       IN IF Len(digits) >= MinPhoneDigits THEN Text(digits) ELSE None

\* DataValidator.validate_name
validate_name(name) ==
  IF ~Truthy(name) THEN None
  ELSE IF name.t # "str" THEN Raised
  ELSE LET kept == SelectSeq(name.s,
                     LAMBDA c : IsWord(c) \/ IsSpace(c) \/ c = "-")
           cleaned == join_split(kept)
       IN IF cleaned # <<>> THEN Text(cleaned) ELSE None

\* '{k: v for k, v in d.items() if v}' and map_unit's
\* 'if v not in (None, '', False)'
DropEmpty(d) == [k \in {f \in DOMAIN d : Truthy(d[f])} |-> d[k]]

except_Unhandled(v) == v

\* 'try: ... except Exception as e: ... return None' around a mapper's body
except_Exception(v) == IF v = Raised THEN None ELSE v

\* ContactMapper.map_contact
ContactMapper_map_contact(odoo_contact) ==
  LET full_name == validate_name(DictGet(odoo_contact, "name", Text(<<>>)))
  IN except_Exception(
     IF full_name = Raised THEN Raised
     ELSE IF ~Truthy(full_name) THEN None
     ELSE LET name_parts == split(full_name.s)
              email == validate_email(DictGet(odoo_contact, "email", None))
              phone == validate_phone(DictGet(odoo_contact, "phone", None))
              mobile == validate_phone(DictGet(odoo_contact, "mobile", None))
              zoho_contact ==
                [First_Name |-> Text(name_parts[1]),
                 Last_Name |-> IF Len(name_parts) > 1 THEN Text(name_parts[2])
                               ELSE Const("N/A"),
                 Phone |-> phone,
                 Mobile |-> mobile,
                 Description |-> DictGet(odoo_contact, "comment", Text(<<>>)),
                 Odoo_ID |-> DictGet(odoo_contact, "contact_id", None),
                 Lead_Source |-> Const("Odoo Migration"),
                 Contact_Type |-> Const("Imported Contact")]
          IN DropEmpty(IF Truthy(email)
                       THEN ("Email" :> email) @@ zoho_contact
                       ELSE zoho_contact))

\* 'if v: zoho_lead[k] = v'
Item(k, v) == IF Truthy(v) THEN k :> v ELSE <<>>

\* LeadMapper.map_lead, for a lead without stage_id and source_id
LeadMapper_map_lead(odoo_lead, contact_id) ==
  LET company == validate_name(DictGet(odoo_lead, "partner_name", Text(<<>>)))
      contact_name == validate_name(DictGet(odoo_lead, "contact_name", Text(<<>>)))
  IN except_Exception(
     IF Raised \in {company, contact_name} THEN Raised
     ELSE LET email == validate_email(DictGet(odoo_lead, "email_from", None))
              phone == validate_phone(DictGet(odoo_lead, "phone", None))
              mobile == validate_phone(DictGet(odoo_lead, "mobile", None))
              name == DictGet(odoo_lead, "name", None)
              name_parts == IF Truthy(contact_name) THEN split(contact_name.s)
                            ELSE <<>>
          IN Item("Contact_Id", contact_id)
             @@ Item("Description", DictGet(odoo_lead, "description", None))
             @@ Item("Email", email)
             @@ Item("Mobile", mobile)
             @@ Item("Phone", phone)
             @@ (IF Truthy(contact_name)
                 THEN [First_Name |-> Text(name_parts[1]),
                       Last_Name |-> IF Len(name_parts) > 1
                                     THEN Text(name_parts[2])
                                     ELSE Const("Unknown")]
                 ELSE [Last_Name |-> Const("Unknown")])
             @@ [Lead_Source |-> Const("Odoo Migration"),
                 Lead_Status |-> Const("New"),
                 Company |-> IF Truthy(company) THEN company
                             ELSE IF Truthy(name) THEN name
                             ELSE Const("Unknown Company"),
                 Owner |-> Const("6421814000003834001")])

\* PropertyMapper.map_property, for the keys that do not come from a relation
PropertyMapper_map_property(odoo_property) ==
  LET ownership_type == DictGet(odoo_property, "ownership_type", None)
  IN except_Exception(
     IF ownership_type \notin {Const("freehold"), Const("leashold")} THEN None
     ELSE DropEmpty(
       ("Properties / Units Id" :>
          Text(<<"odoo_">> \o str(DictGet(odoo_property, "id", Text(<<>>))).s))
       @@ ("Unit Code" :> DictGet(odoo_property, "property_code", Text(<<>>)))
       @@ ("Status" :> Const("false"))
       @@ ("Tag" :> IF ownership_type = Const("freehold") THEN Const("Freehold")
                    ELSE Const("Leasehold"))
       @@ ("Unit Name" :> DictGet(odoo_property, "name", Text(<<>>)))
       @@ ("Property Details" :>
             IF DictGet(odoo_property, "property_type", None) = Const("sale")
             THEN Const("For Sale") ELSE Const("For Lease"))
       @@ ("Building Name" :> DictGet(odoo_property, "name", Text(<<>>)))
       @@ ("Property Description (AR)" :> Text(<<>>))
       @@ ("Covered Area" :>
             str(DictGet(odoo_property, "builtup_area", Text(<<>>))))
       @@ ("Possession Status" :>
             IF Truthy(DictGet(odoo_property, "off_plan_property", None))
             THEN Const("Under Construction") ELSE Const("Ready"))))

\* UnitMapper.map_unit, for the keys that do not come from a relation or from
\* clean_currency; "odoo_unit.get('type', '').lower()" raises for a type that
\* is set to False or None, and the handler returns None
UnitMapper_map_unit(odoo_unit, is_update) ==
  LET ownership_type == DictGet(odoo_unit, "ownership_type", None)
  IN except_Exception(
     IF ~Truthy(DictGet(odoo_unit, "name", None)) THEN None
     ELSE IF ownership_type \notin {Const("freehold"), Const("leashold")} THEN None
     ELSE IF DictGet(odoo_unit, "type", Text(<<>>)).t # "str" THEN Raised
     ELSE LET zoho_unit ==
       [Unit_Code |-> DictGet(odoo_unit, "property_code", None),
        Property_Title |-> DictGet(odoo_unit, "name", None),
        Status |-> DictGet(odoo_unit, "state", None),
        Possession_Status |->
          IF Truthy(DictGet(odoo_unit, "off_plan_property", None))
          THEN Const("Under Construction") ELSE Const("Ready"),
        Bedrooms |-> str(DictGet(odoo_unit, "bedroom", Text(<<>>))),
        Bathrooms |-> str(DictGet(odoo_unit, "bathroom", Text(<<>>))),
        Total_Area |-> DictGet(odoo_unit, "total_area", None),
        Internal_Area_UOM |-> DictGet(odoo_unit, "builtup_area", None),
        Properties_Units_Id |->
          Text(<<"odoo_">> \o str(DictGet(odoo_unit, "id", None)).s),
        Currency |-> DictGet(odoo_unit, "currency", Const("AED"))]
     IN DropEmpty(
          IF ~is_update
          THEN [zoho_unit EXCEPT
                  !.Unit_Code = DictGet(odoo_unit, "property_code", None)]
          ELSE zoho_unit))

\* the source records a mapper is applied to
Jane_Doe == <<"J", "a", "n", "e", " ", "D", "o", "e">>
JANE_EX_COM == <<"J", "A", "N", "E", "@", "E", "X", ".", "C", "O", "M">>
Formatted_Mobile == <<"+", "1", " ", "(", "5", "5", "5", ")", " ", "0", "1",
                      "0", "-", "2", "0", "2", "0">>

OdooRecords ==
  [name : {Missing, False, Text(<<>>), Text(<<"*">>), Number(<<"7">>),
           Text(Jane_Doe), Text(<<"B", "o", "b">>)},
   email : {Missing, Text(JANE_EX_COM), Text(<<"j", "@", "x">>)},
   mobile : {False, Text(Formatted_Mobile), Text(<<"5", "5", "5", "-", "0", "1">>)},
   ownership_type : {Missing, Const("freehold"), Const("leashold"),
                     Const("leasehold"), Const("rent")},
   type : {Missing, False},
   builtup_area : {Missing, False, Number(<<"120.5">>)},
   bathroom : {False, Number(<<"2">>)},
   property_code : {False, Const("c1")},
   id : {Missing, Number(<<"7">>)},
   contact_name : {Missing, Number(<<"7">>), Text(Jane_Doe)}]

MapInit ==
  /\ mapper = "none"
  /\ odoo_record \in OdooRecords
  /\ zoho_record = <<>>
  /\ dest_contact = <<>>
  /\ linked = 0

\* self.contact_mapper.map_contact(contact)
MapContact ==
  /\ mapper = "none"
  /\ mapper' = "contact"
  /\ zoho_record' = ContactMapper_map_contact(odoo_record)
  /\ UNCHANGED <<odoo_record, dest_contact, linked>>
  /\ UNCHANGED <<fetchVars, zohoVars, unitVars, listVars, passVars, workVars,
                 loopVars, sendVars, exportVars>>

\* self.property_mapper.map_property(prop)
MapProperty ==
  /\ mapper = "none"
  /\ mapper' = "property"
  /\ zoho_record' = PropertyMapper_map_property(odoo_record)
  /\ UNCHANGED <<odoo_record, dest_contact, linked>>
  /\ UNCHANGED <<fetchVars, zohoVars, unitVars, listVars, passVars, workVars,
                 loopVars, sendVars, exportVars>>

\* self.unit_mapper.map_unit(unit, is_update)
MapUnit ==
  /\ mapper = "none"
  /\ mapper' = "unit"
  /\ \E is_update \in BOOLEAN :
       zoho_record' = UnitMapper_map_unit(odoo_record, is_update)
  /\ UNCHANGED <<odoo_record, dest_contact, linked>>
  /\ UNCHANGED <<fetchVars, zohoVars, unitVars, listVars, passVars, workVars,
                 loopVars, sendVars, exportVars>>

\* self.lead_mapper.map_lead(lead, contact_id)
MapLead ==
  /\ mapper = "none"
  /\ mapper' = "lead"
  /\ \E contact_id \in {None, Const("z1")} :
       zoho_record' = LeadMapper_map_lead(odoo_record, contact_id)
  /\ UNCHANGED <<odoo_record, dest_contact, linked>>
  /\ UNCHANGED <<fetchVars, zohoVars, unitVars, listVars, passVars, workVars,
                 loopVars, sendVars, exportVars>>

NextMap == MapContact \/ MapLead \/ MapProperty \/ MapUnit

InitMap == OdooQuiet /\ ZohoQuiet /\ UnitQuiet /\ ListQuiet /\ MapInit /\ SendQuiet
             /\ ExportQuiet

SpecMap == InitMap /\ [][NextMap]_vars

(* --------------------------- property pass ----------------------------- *)

\* the property.master records of the source
PropertyRecords ==
  [name : {Text(<<"B", "o", "b">>)},
   ownership_type : {Const("freehold"), Const("rent")},
   property_code : {False, Const("c1")},
   builtup_area : {Missing, Number(<<"120.5">>)}]

\* migrate_properties at the point where fetch_records has returned
ExportInit ==
  /\ units = <<>>
  /\ partner = <<>>
  /\ zoho_contacts = <<>>
  /\ zoho_units = <<>>
  /\ contact_map = <<>>
  /\ upc = "process"
  /\ run = 1
  /\ fetched \in UNION {[1..n -> PropertyRecords] : n \in 0..MaxProperties}
  /\ idx = 1
  /\ success_count = 0
  /\ error_count = 0
  /\ skipped_count = 0
  /\ processed_count = 0
  /\ new_records = <<>>
  /\ mapped_properties = <<>>
  /\ fieldnames = {}
  /\ rows = <<>>

\* 'for prop in properties': the loop body of migrate_properties
MapNextProperty ==
  /\ upc = "process"
  /\ idx <= Len(fetched)
  /\ ~stop_event
  /\ LET mapped_property == PropertyMapper_map_property(fetched[idx])
     IN IF mapped_property # None /\ DOMAIN mapped_property # {}
        THEN /\ mapped_properties' = Append(mapped_properties, mapped_property)
             /\ success_count' = success_count + 1
             /\ UNCHANGED skipped_count
        ELSE /\ skipped_count' = skipped_count + 1
             /\ UNCHANGED <<mapped_properties, success_count>>
  /\ processed_count' = processed_count + 1
  /\ idx' = idx + 1
  /\ UNCHANGED <<units, partner, zoho_contacts, zoho_units, contact_map, upc,
                 run, fetched, error_count, new_records>>
  /\ UNCHANGED <<fieldnames, rows, sendVars>>
  /\ UNCHANGED <<fetchVars, zohoVars, listVars, passVars, workVars, loopVars,
                 mapVars>>

\* csv.DictWriter.writerow: the values of the row in the order of fieldnames,
\* '' for a field the record does not have
CsvRow(prop, names) ==
  [k \in names |-> IF k \in DOMAIN prop THEN prop[k] ELSE Text(<<>>)]

\* 'if mapped_properties: filename = self.export_properties_to_csv(...)':
\* fieldnames are the keys of the first record; writerow raises ValueError for
\* a record with a key that is not in fieldnames, the rows before it are in
\* the file and the exception leaves migrate_properties
ExportPropertiesToCsv ==
  /\ upc = "process"
  /\ idx > Len(fetched)
  /\ IF mapped_properties = <<>>
     THEN /\ upc' = "done"
          /\ UNCHANGED <<fieldnames, rows>>
     ELSE LET names == DOMAIN mapped_properties[1]
              extras == {i \in DOMAIN mapped_properties :
                           ~(DOMAIN mapped_properties[i] \subseteq names)}
              written == IF extras = {} THEN Len(mapped_properties)
                         ELSE (CHOOSE i \in extras : \A j \in extras : i <= j) - 1
          IN /\ fieldnames' = names
             /\ rows' = [i \in 1..written |-> CsvRow(mapped_properties[i], names)]
             /\ upc' = IF extras = {} THEN "done" ELSE "raised"
  /\ UNCHANGED <<units, partner, zoho_contacts, zoho_units, contact_map, run,
                 fetched, idx, success_count, error_count, skipped_count,
                 processed_count, new_records>>
  /\ UNCHANGED <<mapped_properties, sendVars>>
  /\ UNCHANGED <<fetchVars, zohoVars, listVars, passVars, workVars, loopVars,
                 mapVars>>

NextExport == MapNextProperty \/ ExportPropertiesToCsv

InitExport ==
  /\ OdooQuiet
  /\ ZohoQuiet
  /\ ListQuiet
  /\ MapQuiet
  /\ SendQuiet
  /\ ExportInit

SpecExport == InitExport /\ [][NextExport]_vars

(* -------------------------- linking by text ---------------------------- *)

RECURSIVE ZohoClient_get_contact_map(_)
\* ZohoClient.get_contact_map over the listed contacts: 'if contact.get("Mobile"):
\* contact_map[contact["Mobile"]] = contact["id"]', the same for Email
ZohoClient_get_contact_map(contacts) ==
  IF contacts = <<>> THEN <<>>
  ELSE LET before == ZohoClient_get_contact_map(SubSeq(contacts, 1, Len(contacts) - 1))
           contact == contacts[Len(contacts)]
           keys == {v.s : v \in {w \in {contact.Mobile, contact.Email} : Truthy(w)}}
       IN [k \in (DOMAIN before) \cup keys |->
             IF k \in keys THEN contact.id ELSE before[k]]

\* MigrationManager.find_contact_id (0: None)
MigrationManager_find_contact_id(lead, map) ==
  LET mobile == DictGet(lead, "mobile", None)
      email_from == DictGet(lead, "email_from", None)
  IN IF Truthy(mobile) /\ mobile.s \in DOMAIN map THEN map[mobile.s]
     ELSE IF Truthy(email_from) /\ email_from.s \in DOMAIN map THEN map[email_from.s]
     ELSE 0

Plain_Mobile == <<"1", "5", "5", "5", "0", "1", "0", "2", "0", "2", "0">>
Other_Mobile == <<"9", "7", "1", "5", "0", "0", "0", "0", "0", "1">>
jane_ex_com == <<"j", "a", "n", "e", "@", "e", "x", ".", "c", "o", "m">>

\* one lead of the source and one contact of the destination
LinkInit ==
  /\ mapper = "none"
  /\ odoo_record \in
       [name : {Text(<<"B", "o", "b">>)},
        mobile : {False, Text(Formatted_Mobile), Text(Plain_Mobile),
                  Text(Other_Mobile)},
        email_from : {False, Text(JANE_EX_COM), Text(jane_ex_com)}]
  /\ dest_contact \in
       [id : {1},
        Mobile : {None, Text(Formatted_Mobile), Text(Plain_Mobile),
                  Text(Other_Mobile)},
        Email : {None, Text(JANE_EX_COM), Text(jane_ex_com)}]
  /\ zoho_record = <<>>
  /\ linked = 0

\* contact_map = get_contact_map(); contact_id = find_contact_id(lead, contact_map)
LinkLead ==
  /\ mapper = "none"
  /\ mapper' = "lead"
  /\ linked' = MigrationManager_find_contact_id(
                 odoo_record, ZohoClient_get_contact_map(<<dest_contact>>))
  /\ UNCHANGED <<odoo_record, zoho_record, dest_contact>>
  /\ UNCHANGED <<fetchVars, zohoVars, unitVars, listVars, passVars, workVars,
                 loopVars, sendVars, exportVars>>

InitLink == OdooQuiet /\ ZohoQuiet /\ UnitQuiet /\ ListQuiet /\ LinkInit /\ SendQuiet
             /\ ExportQuiet

SpecLink == InitLink /\ [][LinkLead]_vars

(* ------------------------------ claims -------------------------------- *)

Range(f) == {f[i] : i \in DOMAIN f}

RECURSIVE Insert(_, _)
Insert(x, sorted) ==
  IF sorted = <<>> \/ x <= Head(sorted) THEN <<x>> \o sorted
  ELSE <<Head(sorted)>> \o Insert(x, Tail(sorted))

RECURSIVE Sort(_)
Sort(seq) == IF seq = <<>> THEN <<>> ELSE Insert(Head(seq), Sort(Tail(seq)))

Count(seq, v) == Cardinality({i \in DOMAIN seq : seq[i] = v})
All(seq, v) == \A i \in DOMAIN seq : seq[i] = v

\* C1: when no page fetch failed (and the source did not change), the ids
\* fetch_records returns, sorted, are exactly the ids an unpaged search of the
\* same filter returns: every matching record once, for every count and page size.
C1_PaginationComplete ==
  \A c \in Calls :
    (fpc[c] = "done" /\ page_errors[c] = 0)
      => Sort(all_records[c]) = SortedSeq(Matching(source, domain[c]))

\* three records in pages of two, the partial last page collected first
C1_Witness ==
  /\ fpc[1] = "done"
  /\ page_errors[1] = 0
  /\ batch_size[1] = 2
  /\ total_count[1] = 3
  /\ all_records[1] = <<3, 1, 2>>

Collected(c, what) ==
  {i \in DOMAIN jobs[c] : jobs[c][i].st = "collected" /\ jobs[c][i].outcome = what}

\* C11: while fetch_records collects its pages, and when it has collected them
\* all and returns, all_records holds exactly the records of the collected pages
\* that did not raise, each once: a page that raised is counted and logged, it
\* takes nothing from the other pages and fetch_records does not raise.
C11_BestEffortPages ==
  \A c \in Calls :
    /\ fpc[c] = "collect"
         => LET kept == UNION {Range(Search(source, domain[c], jobs[c][i].offset,
                                            jobs[c][i].limit)) :
                                 i \in Collected(c, "records")}
            IN /\ Range(all_records[c]) = kept
               /\ Len(all_records[c]) = Cardinality(kept)
               /\ page_errors[c] = Cardinality(Collected(c, "raised"))
    /\ page_errors[c] > 0 => fpc[c] \in {"collect", "done"}

\* two pages, the first raised and the second was read: the call is about to
\* return the second page's record
C11_Witness ==
  /\ fpc[1] = "collect"
  /\ Len(jobs[1]) = 2
  /\ jobs[1][1].st = "collected" /\ jobs[1][1].outcome = "raised"
  /\ jobs[1][2].st = "collected" /\ jobs[1][2].outcome = "records"
  /\ all_records[1] = <<2>>
  /\ page_errors[1] = 1

\* C12: when records are deleted between the page fetches of a run in which no
\* page raised, every record that matched the filter during the whole run (it
\* still matches now) is in the result exactly once.
C12_StableUnderMutation ==
  (fpc[1] = "done" /\ page_errors[1] = 0)
    => \A id \in Matching(source, domain[1]) : Count(all_records[1], id) = 1

\* C2: a second run of the unit pass against the same source creates no
\* destination record, unit or owner contact.
C2_SecondRunCreatesNothing == (run = 2 /\ upc = "done") => new_records[2] = 0

\* C3: create_record and update_record, answered 401 once with the refresh
\* accepted, send the request again; if that one succeeds the call returns the
\* success result after exactly one refresh and exactly two requests.
C3_RefreshThenSuccess ==
  (/\ op[Observed] \in {"create_record", "update_record"}
   /\ zpc[Observed] = "done"
   /\ hist # <<>>
   /\ hist[1] = "unauthorized"
   /\ rejected = 0)
    => /\ Len(hist) >= 2
       /\ hist[2] = "success"
            => /\ result[Observed] = "success"
               /\ refreshes = 1
               /\ Len(hist) = 2

C3_Witness ==
  /\ op[Observed] = "create_record"
  /\ zpc[Observed] = "done"
  /\ hist = <<"unauthorized", "success">>
  /\ refreshes = 1
  /\ rejected = 0
  /\ result[Observed] = "success"

\* C4: at most one thread is inside refresh_token's critical section (asking the
\* auth endpoints, storing the token and the endpoint) at any moment.
C4_RefreshMutex ==
  /\ Cardinality({t \in Threads : zpc[t] = "refresh"}) <= 1
  /\ \A t \in Threads : (zpc[t] = "refresh") <=> (token_lock = t)

\* one thread refreshes while another, which also saw a 401, waits for the lock
C4_Witness ==
  \E t, u \in Workers :
    /\ t # u
    /\ zpc[t] = "refresh"
    /\ zpc[u] = "lock"

\* C13: a refresh asks the endpoints in list order starting with the first; the
\* first that accepts ends the refresh and becomes the current endpoint together
\* with its token; the refresh raises into its caller only from the last
\* endpoint of the list, every endpoint having rejected, and a refresh that is
\* under way or raises leaves token and endpoint as they were.
C13_EndpointOrder ==
  [][\A t \in Threads :
       /\ (zpc[t] = "lock" /\ zpc'[t] = "refresh") => dom_i'[t] = 1
       /\ zpc[t] = "refresh" =>
            /\ dom_i[t] \in 1..NumDomains
            /\ zpc'[t] \in {"refresh", "request", "sleep", "done"}
            /\ zpc'[t] = "refresh" =>
                 /\ dom_i'[t] \in {dom_i[t], dom_i[t] + 1}
                 /\ dom_i'[t] <= NumDomains
                 /\ current_domain' = current_domain
                 /\ access_token' = access_token
            /\ zpc'[t] = "request" =>
                 /\ current_domain' = dom_i[t]
                 /\ access_token' = dom_i[t]
            /\ zpc'[t] \in {"sleep", "done"} =>
                 /\ dom_i[t] = NumDomains
                 /\ current_domain' = current_domain
                 /\ access_token' = access_token]_vars

\* the first refresh of a call was accepted by the second endpoint of the list
C13_Witness ==
  /\ zpc[Observed] = "request"
  /\ hist = <<"unauthorized">>
  /\ refreshes = 1
  /\ rejected = 0
  /\ current_domain = 2
  /\ access_token = 2

\* C14: the endpoint chosen by the authentication at construction stays the
\* current endpoint whatever the later refreshes are answered.
C14_StickyEndpoint == [][current_domain' = current_domain]_vars

\* the contacts on the pages before page p
Listed(p) == Min((p - 1) * per_page, Len(zoho_contacts))

\* C15: get_contact_map asks for the pages in order from page 1: while it runs
\* and when it has returned, its map is the index of exactly the pages before
\* the current one; it ends without an error only at the first page without
\* records, the map then covering every contact; after a page load that raised it
\* has returned the map of the pages processed until then, without raising; and
\* every entry leads from a Mobile or Email of a listed contact to that contact.
C15_ListingInOrder ==
  /\ list_error => lpc = "done"
  /\ lpc # "idle"
    => /\ contact_map = BuildMap(zoho_contacts, Listed(page))
       /\ (page - 1) * per_page <= Len(zoho_contacts) + per_page - 1
       /\ (lpc = "done" /\ ~list_error)
            => /\ ContactsPage(zoho_contacts, page) = {}
               /\ contact_map = get_contact_map(zoho_contacts)
       /\ \A k \in DOMAIN contact_map :
            /\ contact_map[k] \in 1..Listed(page)
            /\ k \in {zoho_contacts[contact_map[k]].Mobile,
                      zoho_contacts[contact_map[k]].Email}

\* the second page raised: the listing has returned the index of the first page
C15_Witness ==
  /\ lpc = "done"
  /\ list_error
  /\ page = 2
  /\ Len(zoho_contacts) = 2
  /\ contact_map = [m1 |-> 1, e1 |-> 1]

\* C16: get_contact_map terminates, also when the destination keeps answering
\* 401 and the refreshes keep being accepted.
C16_ListingTerminates == <>(lpc = "done")

PhaseRank ==
  [start |-> 0, index |-> 1, indexing |-> 2, fetch |-> 3, fetching |-> 4,
   process |-> 5, done |-> 6, raised |-> 6]

\* C17 as stated: the source fetch has completed when identity indexing begins.
C17_FetchBeforeIndex == lpc # "off" => fpc[1] = "done"

\* C17, amended: a pass goes through identity indexing, fetching, processing
\* and its summary in this order and never back: the fetch is not called before
\* get_contact_map has returned, no record is processed before fetch_records
\* has returned, and indexing and fetching are over while records are processed.
C17_IndexThenFetch ==
  /\ [](/\ upc \in {"start", "index"} => lpc = "off"
        /\ upc \in {"start", "index", "indexing"} => (fpc[1] = "off" /\ idx = 0)
        /\ upc \in {"fetch", "fetching", "process", "done", "raised"} => lpc = "done"
        /\ upc \in {"fetch", "fetching"}
             => /\ idx = 0
                /\ processed_count + skipped_count = 0
                /\ new_records[run] = 0
        /\ upc \in {"process", "done"} => fpc[1] = "done")
  /\ [][PhaseRank[upc'] >= PhaseRank[upc]]_vars

\* the first of two fetched records has been processed
C17_Witness ==
  /\ upc = "process"
  /\ Len(fetched) = 2
  /\ idx = 2
  /\ lpc = "done"
  /\ fpc[1] = "done"

\* C18: after a page load of get_contact_map has raised, no source record is
\* processed and nothing is written to the destination.
C18_IndexFailureAborts == list_error => (idx <= 1 /\ new_records[run] = 0)

\* C19: the count query comes before any page request; when it raises no page
\* is requested, fetch_records raises and the pass raises with no record
\* processed and nothing written to the destination; when it returns 0 no page
\* is requested and the result is empty.
C19_CountFirst ==
  /\ fpc[1] \in {"off", "count", "raised"}
       => /\ jobs[1] = <<>>
          /\ all_records[1] = <<>>
          /\ created = max_workers
          /\ pool = [k \in 1..max_workers |-> k]
  /\ fpc[1] = "raised"
       => /\ upc \in {"fetching", "raised"}
          /\ idx = 0
          /\ processed_count + skipped_count + success_count + error_count = 0
          /\ new_records[run] = 0
          /\ zoho_leads = <<>>
          /\ zoho_units = <<>>
  /\ upc = "raised" => fpc[1] = "raised"
  /\ (fpc[1] = "done" /\ total_count[1] = 0)
       => /\ all_records[1] = <<>>
          /\ jobs[1] = <<>>
          /\ created = max_workers
          /\ pool = [k \in 1..max_workers |-> k]
          /\ upc \in {"process", "done"} => fetched = <<>>

\* the count query of a pass over two source records raised: the pass has raised
C19_Witness ==
  /\ upc = "raised"
  /\ fpc[1] = "raised"
  /\ Len(SourceRecords) = 2
  /\ lpc = "done"

\* the count query of a pass returned 0: the pass is done with nothing fetched
C19_WitnessZero ==
  /\ upc = "done"
  /\ fpc[1] = "done"
  /\ total_count[1] = 0
  /\ fetched = <<>>

\* C20: when all workers have finished their batches, each of the counters
\* success, error and skipped equals the number of records that took that
\* outcome, and processed the number of records written or failed.
C20_CountersExact ==
  (\A w \in Workers : wpc[w] = "end")
    => /\ success_count = tally["success"]
       /\ error_count = tally["error"]
       /\ skipped_count = tally["skipped"]
       /\ processed_count = tally["success"] + tally["error"]

\* C21: inside the record loop of a pass the contact of a record comes from
\* contact_map alone: the worker sends no search or list request on Contacts.
C21_LocalOnlyLinking ==
  \A i \in DOMAIN sent : ~(sent[i].req = "search" /\ sent[i].module = "Contacts")

\* a is b or b with something appended
IsPrefix(a, b) == Len(a) <= Len(b) /\ \A i \in DOMAIN a : a[i] = b[i]

\* the counters and the destination records keep what they hold
NoRollback ==
  /\ success_count' >= success_count
  /\ error_count' >= error_count
  /\ skipped_count' >= skipped_count
  /\ processed_count' >= processed_count
  /\ IsPrefix(zoho_leads, zoho_leads')
  /\ IsPrefix(zoho_contacts, zoho_contacts')
  /\ Len(zoho_units') >= Len(zoho_units)

\* C22: once stop_event is set it stays set and no record is taken any more; a
\* record in flight at that moment may be finished, and with none in flight
\* the counters, the destination and the request log no longer change; setting
\* the flag changes nothing else, and nothing done so far is ever undone.
C22_CooperativeCancel ==
  /\ [][stop_event => (stop_event' /\ (inflight' => inflight))]_vars
  /\ [][(stop_event /\ ~inflight)
          => /\ UNCHANGED <<success_count, error_count, skipped_count,
                            processed_count, new_records, zoho_leads,
                            zoho_units, zoho_contacts, sent>>
             /\ upc = "process" => idx' = idx]_vars
  /\ [][stop_event' # stop_event
          => UNCHANGED <<fetchVars, zohoVars, unitVars, listVars, passVars,
                         inflight, sent>>]_vars
  /\ [][NoRollback]_vars

\* the flag was set during a pass over two records: one record was processed,
\* the other never taken, and the pass ended
C22_Witness ==
  /\ stop_event
  /\ upc = "done"
  /\ Len(fetched) = 2
  /\ idx = 2
  /\ ~inflight
  /\ processed_count + skipped_count = 1

\* C23: in the request log of a worker every destination write (create or
\* update) is followed by the rate-limit sleep before the next request.
C23_SleepAfterWrite ==
  \A i \in DOMAIN sent :
    (sent[i].req \in {"create", "update"} /\ i < Len(sent))
      => sent[i + 1].req = "sleep"

\* C24: a record that is skipped adds 1 to skipped_count only and writes
\* nothing to the destination; a record whose write fails adds 1 to
\* error_count, once, and writes nothing; in both cases the loop goes on with
\* the next record of the batch.
C24_FailuresStayLocal ==
  /\ [][skipped_count' = skipped_count + 1
          => /\ UNCHANGED <<success_count, error_count, processed_count>>
             /\ UNCHANGED <<zoho_contacts, zoho_units, zoho_leads, new_records>>
             /\ idx' = idx + 1
             /\ upc' = "process"]_vars
  /\ [][error_count' # error_count
          => /\ error_count' = error_count + 1
             /\ UNCHANGED <<success_count, skipped_count>>
             /\ UNCHANGED <<zoho_contacts, zoho_units, zoho_leads, new_records>>
             /\ idx' = idx + 1
             /\ upc' = "process"]_vars

\* C25: once a refresh_token() of a client call was rejected by every endpoint
\* the call is over and has raised to its caller: it sends no further request.
C25_AuthFailureFatal ==
  rejected > 0 => (zpc[Observed] = "done" /\ result[Observed] = "raised")

\* C26: the units of a pass have one owner (partner); at most one Contacts
\* record is created for it during the pass, however many units share it.
C26_OneContactPerOwner ==
  Cardinality({i \in DOMAIN sent : sent[i] = Req("create", "Contacts")}) <= 1

\* C27: a lead whose mobile, reduced to its digits, or whose email, lowercased,
\* equals that of a destination contact is linked to the contact.
C27_NormalizedKeys ==
  mapper = "lead"
    => LET mobile == validate_phone(odoo_record.mobile)
           email == validate_email(odoo_record.email_from)
       IN (\/ Truthy(mobile) /\ mobile = validate_phone(dest_contact.Mobile)
           \/ Truthy(email) /\ email = validate_email(dest_contact.Email))
            => linked = dest_contact.id

\* the value of a source field is empty, absent or false
Empty(v) == v \in {Missing, None, False, Text(<<>>)}

SourceField ==
  [contact |-> [First_Name |-> "name", Last_Name |-> "name", Phone |-> "phone",
                Mobile |-> "mobile", Email |-> "email",
                Description |-> "comment", Odoo_ID |-> "contact_id"],
   property |-> ("Properties / Units Id" :> "id")
                @@ ("Unit Code" :> "property_code")
                @@ ("Unit Name" :> "name")
                @@ ("Building Name" :> "name")
                @@ ("Covered Area" :> "builtup_area"),
   unit |-> [Unit_Code |-> "property_code", Property_Title |-> "name",
             Status |-> "state", Bedrooms |-> "bedroom",
             Bathrooms |-> "bathroom", Total_Area |-> "total_area",
             Internal_Area_UOM |-> "builtup_area",
             Properties_Units_Id |-> "id", Currency |-> "currency"]]

\* C29: the record a contact, property or unit mapper returns holds no key
\* whose source field was empty, absent or false.
C29_NoBlanks ==
  (mapper \in {"contact", "property", "unit"} /\ zoho_record # None)
    => \A k \in (DOMAIN zoho_record) \cap (DOMAIN SourceField[mapper]) :
         ~Empty(DictGet(odoo_record, SourceField[mapper][k], Missing))

\* the contact of the example
IsExample ==
  /\ mapper = "contact"
  /\ odoo_record.name = Text(Jane_Doe)
  /\ odoo_record.email = Text(JANE_EX_COM)
  /\ odoo_record.mobile = Text(Formatted_Mobile)

\* C30 as stated: the example contact is mapped to exactly First_Name "Jane",
\* Last_Name "Doe", Email "jane@ex.com", Mobile "5550102020".
C30_ExampleAsStated ==
  IsExample
    => zoho_record =
         [First_Name |-> Text(<<"J", "a", "n", "e">>),
          Last_Name |-> Text(<<"D", "o", "e">>),
          Email |-> Text(jane_ex_com),
          Mobile |-> Text(<<"5", "5", "5", "0", "1", "0", "2", "0", "2", "0">>)]

\* C30: the example contact is mapped to First_Name "Jane", Last_Name "Doe",
\* Email "jane@ex.com", Mobile "15550102020" (every digit, the country code
\* included), Lead_Source "Odoo Migration" and Contact_Type "Imported Contact";
\* for every contact that is mapped, an Email is the source email stripped and
\* lowercased, and a Mobile is there exactly when the source mobile has at
\* least 8 digits and is those digits.
C30_ContactMapping ==
  /\ IsExample
       => zoho_record =
            [First_Name |-> Text(<<"J", "a", "n", "e">>),
             Last_Name |-> Text(<<"D", "o", "e">>),
             Email |-> Text(jane_ex_com),
             Mobile |-> Text(Plain_Mobile),
             Lead_Source |-> Const("Odoo Migration"),
             Contact_Type |-> Const("Imported Contact")]
  /\ (mapper = "contact" /\ zoho_record # None)
       => LET email == DictGet(odoo_record, "email", None)
              mobile == DictGet(odoo_record, "mobile", None)
              digits == IF mobile.t = "str" THEN SelectSeq(mobile.s, IsDigit)
                        ELSE <<>>
          IN /\ "Email" \in DOMAIN zoho_record
                  => /\ email.t = "str"
                     /\ zoho_record["Email"].s = lower(strip(email.s))
                     /\ \A i \in DOMAIN zoho_record["Email"].s :
                          \A k \in DOMAIN Upper : zoho_record["Email"].s[i] # Upper[k]
             /\ "Mobile" \in DOMAIN zoho_record <=> Len(digits) >= MinPhoneDigits
             /\ "Mobile" \in DOMAIN zoho_record
                  => zoho_record["Mobile"] = Text(digits)

\* the example contact was mapped
C30_Witness == IsExample /\ zoho_record # None

\* C33: the record map_unit returns for is_update = True has no Unit_Code key,
\* for every input unit.
C33_UnitCodeOnlyOnCreate ==
  (/\ mapper = "unit"
   /\ zoho_record # None
   /\ zoho_record = UnitMapper_map_unit(odoo_record, TRUE))
    => "Unit_Code" \notin DOMAIN zoho_record

\* C39: in the unit pass no fetched unit that has a non-empty name is counted
\* as skipped: the units skipped so far are at most the processed units
\* without a name.
C39_UnitsAreWritten ==
  upc \in {"process", "done"}
    => skipped_count <=
         Cardinality({i \in 1..Len(fetched) :
                        i < idx /\ Falsy(Get(fetched[i], "name"))})

C32_PageFetchRetried ==
  \A c \in Calls : \A i \in DOMAIN jobs[c] :
    (jobs[c][i].st \in {"finished", "collected"} /\ jobs[c][i].outcome = "raised")
      => jobs[c][i].returned \in {retry_limit, retry_limit + 1}

\* C37: a refresh that every endpoint rejects leaves the stored access token
\* and the current endpoint as they were when it started: no step taken while
\* the refresh holds the lock, other than the step that stores an accepted
\* token, changes either, and the step in which the last endpoint rejects
\* changes neither.
C37_FailedRefreshChangesNothing ==
  /\ [][(token_lock # 0 /\ zpc'[token_lock] # "request")
          => (access_token' = access_token /\ current_domain' = current_domain)]_vars
  /\ [][rejected' > rejected
          => (access_token' = access_token /\ current_domain' = current_domain)]_vars

\* the refresh of an update was rejected by every endpoint and the call has
\* returned None; the token and the endpoint of the construction are in place
C37_Witness ==
  /\ rejected = 1
  /\ refreshes = 1
  /\ hist = <<"unauthorized">>
  /\ op[Observed] = "update_record"
  /\ zpc[Observed] = "done"
  /\ access_token # 0
  /\ access_token = current_domain

\* C36: every destination request is sent with the base URL and the access
\* token of one endpoint, stored by the same successful refresh.
C36_ConsistentTokenAndEndpoint ==
  \A t \in Threads : zpc[t] = "send" => url_domain[t] = header_token[t]

\* C31: when the property pass has ended, the file holds exactly one row for
\* each successfully mapped property, whatever fields the mapped records have.
C31_OneRowPerMappedProperty ==
  upc \in {"done", "raised"} => Len(rows) = Len(mapped_properties)

\* C5: a create_record call that is answered 401 every time, every refresh being
\* accepted, refreshes at most 3 times, and after the fourth 401 it has returned
\* that answer (not a success) to its caller.
C5_CreateGivesUp ==
  (/\ op[Observed] = "create_record"
   /\ All(hist, "unauthorized")
   /\ rejected = 0)
    => /\ refreshes <= 3
       /\ Len(hist) <= 4
       /\ Len(hist) = 4 => zpc[Observed] = "done"
       /\ zpc[Observed] = "done"
            => /\ refreshes = 3
               /\ result[Observed] = "unauthorized"

C5_Witness ==
  /\ op[Observed] = "create_record"
  /\ zpc[Observed] = "done"
  /\ hist = <<"unauthorized", "unauthorized", "unauthorized", "unauthorized">>
  /\ refreshes = 3
  /\ rejected = 0

\* C6: update_record, get_existing_unit and get_contact_by_odoo_id, answered 401
\* every time with every refresh accepted, refresh at most 3 times.
C6_SearchUpdateBounded ==
  (/\ op[Observed] \in {"update_record", "get_existing_unit", "get_contact_by_odoo_id"}
   /\ All(hist, "unauthorized")
   /\ rejected = 0)
    => refreshes <= 3

\* C7 as stated: when every request of a create_record call raises, the request
\* is attempted at most 3 times.
C7_AtMostThreeAttempts ==
  (op[Observed] = "create_record" /\ All(hist, "raise")) => Len(hist) <= 3

\* C7, amended: when every request of a create_record call raises, the request
\* is attempted 4 times (once and 3 retries), one sleep before each retry, and
\* the call then returns None.
C7_FourAttemptsThenNone ==
  (op[Observed] = "create_record" /\ All(hist, "raise"))
    => /\ Len(hist) <= 4
       /\ refreshes = 0
       /\ zpc[Observed] = "request" => sleeps = Len(hist)
       /\ Len(hist) = 4 => zpc[Observed] = "done"
       /\ zpc[Observed] = "done"
            => /\ Len(hist) = 4
               /\ sleeps = 3
               /\ result[Observed] = "None"

C7_Witness ==
  /\ op[Observed] = "create_record"
  /\ zpc[Observed] = "done"
  /\ hist = <<"raise", "raise", "raise", "raise">>
  /\ sleeps = 3
  /\ result[Observed] = "None"

\* C8: update_record returns a failure result for a request that raised only
\* after 3 attempts have raised.
C8_UpdateRetries ==
  (/\ op[Observed] = "update_record"
   /\ zpc[Observed] = "done"
   /\ rejected = 0
   /\ result[Observed] = "None")
    => Count(hist, "raise") >= 3

\* C9: no connection beyond the pool of max_workers is ever created.
C9_NoExtraConnection == created <= max_workers

InFlightJobs ==
  {<<c, i>> \in Calls \X (1..MaxId) :
     i \in DOMAIN jobs[c] /\ jobs[c][i].st \in {"search", "read", "finally"}}

\* 'self.models = self._connection_pool[0]': the default connection is the
\* first connection of the pool, and stays in the pool
models == 1

\* the threads that have a request under way on connection k: the callers of
\* fetch_records that make the count query on self.models, and the page
\* workers between _get_connection and the end of their search and read
UsersOf(k) ==
  {<<c, 0>> : c \in {d \in Calls : k = models /\ fpc[d] = "count"}}
  \cup {o \in InFlightJobs :
          jobs[o[1]][o[2]].conn = k /\ jobs[o[1]][o[2]].st \in {"search", "read"}}

\* C34: at every moment each source connection is in use by at most one
\* thread, the default connection of the count query included.
C34_ExclusiveUse == \A k \in 1..created : Cardinality(UsersOf(k)) <= 1

\* C35: the connection pool never holds more than max_workers connections, and
\* whenever no page fetch is in progress it holds exactly max_workers, after
\* successful and failed page fetches of concurrent fetch_records calls.
C35_PoolSize ==
  /\ Len(pool) <= max_workers
  /\ InFlightJobs = {} => Len(pool) = max_workers

\* three concurrent calls have fetched their page, one with a connection made
\* beyond the pool and one with an exception, and all have returned theirs
C35_Witness ==
  /\ InFlightJobs = {}
  /\ created > max_workers
  /\ \E c \in Calls : \E i \in DOMAIN jobs[c] :
       jobs[c][i].st = "finished" /\ jobs[c][i].outcome = "raised"
  /\ \E c \in Calls : \E i \in DOMAIN jobs[c] :
       jobs[c][i].st = "finished" /\ jobs[c][i].outcome = "records"
  /\ Len(pool) = max_workers

\* C10: a page fetch holds one connection of its own from _get_connection to
\* the end of the fetch, and once the fetch has ended, with records, with an
\* empty page or with an exception, it has returned it to the pool exactly once:
\* every connection is in the pool or held by exactly one running page fetch.
C10_ConnectionReleased ==
  /\ \A c \in Calls : \A i \in DOMAIN jobs[c] :
       LET j == jobs[c][i]
       IN /\ j.st = "queued" => (j.conn = 0 /\ j.returned = 0)
          /\ j.st \in {"search", "read", "finally"}
               => /\ j.conn \in 1..created
                  /\ j.returned = 0
                  /\ j.conn \notin Range(pool)
                  /\ \A o \in InFlightJobs :
                       o # <<c, i>> => jobs[o[1]][o[2]].conn # j.conn
          /\ j.st \in {"finished", "collected"} => (j.conn = 0 /\ j.returned = 1)
  /\ Len(pool) + Cardinality(InFlightJobs) = created
  /\ Cardinality(Range(pool)) = Len(pool)

\* three pages have ended, one with records, one with an exception, one empty
C10_Witness ==
  \E i, j, k \in DOMAIN jobs[1] :
    /\ jobs[1][i].st = "finished" /\ jobs[1][i].outcome = "records"
    /\ jobs[1][j].st = "finished" /\ jobs[1][j].outcome = "raised"
    /\ jobs[1][k].st = "finished" /\ jobs[1][k].outcome = "empty"
    /\ jobs[1][i].returned = 1 /\ jobs[1][j].returned = 1 /\ jobs[1][k].returned = 1
    /\ Len(pool) = max_workers

====
